---------------------------- MODULE Spec2Model ----------------------------
(***************************************************************************)
(* A model of fetscraper's download side: src/src/downloader.py            *)
(* (VideoDownloader: the download ledger, download_video and               *)
(* download_videos) with the helpers of src/src/utils.py it calls.         *)
(*                                                                         *)
(* The program is single threaded.  pc is the position of that thread      *)
(* inside download_video / download_videos / _save_download_history.       *)
(* The environment is the network (a request succeeds or raises), the      *)
(* ffmpeg subprocess (exit code 0, non-zero, timeout, or not startable),   *)
(* the file system (a write, mkdir or unlink succeeds or raises OSError)   *)
(* and the user (an interrupt kills the process where it stands).          *)
(*                                                                         *)
(* A second part models src/src/client.py (FetLifeClient: the rate         *)
(* limiter and the session's retry policy) and src/src/auth.py             *)
(* (authenticate, verify_authentication).  Spec runs the downloader next   *)
(* to an unused client, ClientSpec the client and its users next to an     *)
(* idle downloader.                                                        *)
(***************************************************************************)
EXTENDS Integers, Sequences, FiniteSets, TLC

\* ------------------------------------------------------------------ bounds
\* download_video invocations (direct or from a batch) in one behaviour
MaxCalls == 2
\* VideoDownloader objects constructed after the first one
MaxRestarts == 1
\* longest list handed to download_videos
MaxBatch == 2
\* operations (client calls, authenticate, verify_authentication) on one
\* FetLifeClient in one behaviour
MaxOps == 2
\* the last reading of the clock, in ticks
MaxTime == 6
\* redirects the session follows in one call before it gives up
MaxRedirects == 1
\* longest string handed to parse_duration and sanitize_filename, beyond
\* the examples of the documentation
MaxLen == 3
\* largest number of seconds handed to format_duration
MaxSeconds == 5025
\* listing pages one search_videos / get_profile_videos call is served
MaxPages == 2

\* ------------------------------------------------------ program constants
\* config.rate_limit_delay, in ticks of the clock
rate_limit_delay == 2

\* Retry(total=3, ...)
RetryTotal == 3

\* ------------------------------------------------------------ the records
\* A download URL as far as the code looks at it: `not download_url`,
\* download_url.startswith("http"), ".m3u8" in download_url.
NoUrl == [present |-> FALSE, abs |-> FALSE, hls |-> FALSE]

Mp4Url == [present |-> TRUE, abs |-> TRUE, hls |-> FALSE]

HlsUrl == [present |-> TRUE, abs |-> FALSE, hls |-> TRUE]

\* VideoInfo (src/src/search.py): the fields download_video reads.  Three
\* records: one with a direct stream URL, one with a manifest URL, one whose
\* URL has to be extracted from the video page.
VideoInfo ==
    [ v101 |-> [video_id |-> "101", uploader |-> "alice", download_url |-> Mp4Url],
      v102 |-> [video_id |-> "102", uploader |-> "alice", download_url |-> HlsUrl],
      v103 |-> [video_id |-> "103", uploader |-> "bob", download_url |-> NoUrl] ]

Videos == {VideoInfo.v101, VideoInfo.v102, VideoInfo.v103}

VideoIds == {v.video_id : v \in Videos}

ById(id) == CHOOSE v \in Videos : v.video_id = id

\* user_dir = output_dir / sanitize_filename(uploader)
UserDir(v) == v.uploader

\* filepath = user_dir / f"{safe_title}_{video_id}.mp4"
FilePath(v) == <<UserDir(v), v.video_id>>

\* ------------------------------------------------------- the ledger file
\* The content of <output_dir>/.download_history.json as json.load and
\* _load_download_history see it.  kind: "missing" (no such file),
\* "invalid" (not decodable JSON: empty, truncated, garbage), "nonobject"
\* (valid JSON whose top level is no object), "object".  For an object,
\* field says what the value of "downloaded_videos" is ("absent", "list",
\* "badlist" = a list holding an unhashable element, "string", "dict",
\* "scalar") and val holds the list's elements, the string's characters or
\* the dict's keys, in order.
LedgerFile(kind, field, val) == [kind |-> kind, field |-> field, val |-> val]

MissingFile == LedgerFile("missing", "absent", <<>>)

TruncatedFile == LedgerFile("invalid", "absent", <<>>)

Range(s) == {s[i] : i \in DOMAIN s}

RECURSIVE SetToSeq(_)
\* list(self.downloaded_ids): the set's elements in some order
SetToSeq(S) ==
    IF S = {} THEN <<>>
    ELSE LET x == CHOOSE y \in S : TRUE IN <<x>> \o SetToSeq(S \ {x})

\* a bug: the list is written under a key the loader does not read
DumpHistoryWrongKey(ids) == LedgerFile("object", "absent", SetToSeq(ids))

\* json.dump({"downloaded_videos": list(self.downloaded_ids)}, f, indent=2)
DumpHistory(ids) == LedgerFile("object", "list", SetToSeq(ids))

\* json.load(f) then set(data.get("downloaded_videos", [])): the value, or
\* the exception raised on the way (JSONDecodeError, AttributeError for
\* data.get on a non-dict, TypeError for set() of a non-iterable or of an
\* unhashable element).  A str iterates over its characters, a dict over
\* its keys.
ParseHistory(f) ==
    CASE f.kind = "invalid" -> [exc |-> TRUE, value |-> {}]
      [] f.kind = "nonobject" -> [exc |-> TRUE, value |-> {}]
      [] f.kind = "object" /\ f.field = "absent" -> [exc |-> FALSE, value |-> {}]
      [] f.kind = "object" /\ f.field \in {"scalar", "badlist"} ->
            [exc |-> TRUE, value |-> {}]
      [] OTHER -> [exc |-> FALSE, value |-> Range(f.val)]

\* VideoDownloader._load_download_history: exists() guard, try / except
\* Exception: pass, return set().
LoadHistory(f) ==
    IF f.kind # "missing" /\ ~ParseHistory(f).exc
    THEN [exc |-> FALSE, value |-> ParseHistory(f).value]
    ELSE [exc |-> FALSE, value |-> {}]

\* The ledger files a run may find on disk when it starts.
InitialLedgerFiles ==
    { MissingFile, TruncatedFile,
      LedgerFile("nonobject", "absent", <<>>),
      LedgerFile("object", "absent", <<>>),
      LedgerFile("object", "scalar", <<>>),
      LedgerFile("object", "badlist", <<>>),
      LedgerFile("object", "string", <<"1", "0", "1">>),
      LedgerFile("object", "dict", <<"102">>),
      LedgerFile("object", "list", <<>>),
      LedgerFile("object", "list", <<"101">>),
      LedgerFile("object", "list", <<"103", "102">>) }


\* ------------------------------------------------------------------ state
VARIABLES
    downloaded_ids,  \* self.downloaded_ids: the ledger in memory
    history_file,    \* the ledger file on disk
    files,           \* the target paths that exist on disk
    dirs,            \* the uploader directories that exist on disk
    pc,              \* position of the program
    video,           \* download_video's video_info ("none" outside a call)
    skip_existing,   \* the skip_existing argument of the running operation
    caller,          \* who called download_video: "api" or "batch"
    download_url,    \* download_video's local download_url
    videos,          \* download_videos' list, as far as the loop has read it
    idx,             \* download_videos' loop position
    stats,           \* download_videos' stats
    call,            \* what the running download_video call did so far
    batch,           \* what the running download_videos call did so far
    hist,            \* the previous download_video call, if with skip_existing
    fresh,           \* the object was constructed and not used yet
    initial_ids,     \* the ledger this object loaded at construction
    committed,       \* the ids of the last complete ledger file written
    completed,       \* ids whose download or remux ran to completion
    ncalls,          \* download_video invocations so far
    restarts         \* constructions after the first

vars ==
    <<downloaded_ids, history_file, files, dirs, pc, video, skip_existing,
      caller, download_url, videos, idx, stats, call, batch, hist,
      fresh, initial_ids, committed, completed, ncalls, restarts>>

disk == <<history_file, files, dirs, committed>>

loop == <<videos, idx, stats, batch>>

object == <<fresh, initial_ids, restarts>>

\* --------------------------------------- state of a FetLifeClient and its users
VARIABLES
    clock,             \* time.time()
    last_request_time, \* self.last_request_time
    csrf_token,        \* self.csrf_token ("none" for None)
    authenticated,     \* self.authenticated
    cpc,               \* position of the program inside the client's users
    request,           \* the running get / post / download_file / session.get
    auth,              \* the running operation on the client
    login_ok,          \* tokens whose login POST ended with 200 on a /home URL
    nops               \* operations started so far

client_vars ==
    <<clock, last_request_time, csrf_token, authenticated, cpc, request, auth,
      login_ok, nops>>

\* What one connection attempt of the session's transport ends in: the
\* connection cannot be made (nothing was sent), the connection breaks or
\* times out after the request was sent, or a response with a status code.
NoOutcome == [kind |-> "none", status |-> 0]

ConnectError == [kind |-> "connect_error", status |-> 0]

ReadError == [kind |-> "read_error", status |-> 0]

Response(status) == [kind |-> "response", status |-> status]

\* One call of FetLifeClient.get / post / download_file, or of
\* client.session.get: method is the call, limited says _rate_limit ran,
\* stamp0 is last_request_time on entry, hop_method and home describe the
\* request of the current hop of the redirect chain (HTTP method, "/home" in
\* its URL), hops counts the redirects followed, attempts and hop_sends the
\* connection attempts and the requests put on the wire on this hop, sends
\* the requests put on the wire in the whole call, early whether one of
\* them went out before stamp0 + rate_limit_delay, cause what made the
\* transport try again last, result
\* "response" or "raised", status and elem the final response's status code
\* and the text of its first error/alert element.
NoRequest ==
    [ method |-> "none", limited |-> FALSE, stamp0 |-> 0,
      hop_method |-> "none", home |-> FALSE, hops |-> 0, attempts |-> 0,
      hop_sends |-> 0, sends |-> 0, early |-> FALSE, cause |-> NoOutcome,
      result |-> "none", status |-> 0, elem |-> "none" ]

\* A login page as extract_csrf_token looks at it: the content of its
\* <meta name="csrf-token">, the value of its authenticity_token input and
\* the token the regular expression finds in its text, "none" for what is
\* missing or empty.
LoginPage(meta, input, script) == [meta |-> meta, input |-> input, script |-> script]

\* a page without a token
NoPage == LoginPage("none", "none", "none")

LoginPages ==
    { NoPage,
      LoginPage("t1", "none", "none"),
      LoginPage("none", "t2", "none"),
      LoginPage("none", "none", "t1"),
      LoginPage("t2", "t1", "none") }

\* One operation on the client: fn is "client" (a plain client call),
\* "authenticate" or "verify_authentication"; step is where it stands;
\* flag0 and token0 are authenticated and csrf_token on entry; calls counts
\* the client calls it made; fetched says its client.get returned a page and
\* page is the login page it got; posted says client.post was called and
\* post is that call's record; logout says the probed page had a logout
\* link; outcome is the return value or the exception, message which
\* AuthenticationError it was.
NoAuth ==
    [ fn |-> "none", step |-> "none", flag0 |-> FALSE, token0 |-> "none",
      calls |-> 0, fetched |-> FALSE, page |-> NoPage, posted |-> FALSE,
      post |-> NoRequest, logout |-> FALSE, outcome |-> "none",
      message |-> "none" ]

\* FetLifeClient.__init__ (client.py lines 39-41); the clock is long past
\* the epoch, so the first call does not sleep
ClientStart ==
    /\ clock = rate_limit_delay
    /\ last_request_time = 0
    /\ csrf_token = "none"
    /\ authenticated = FALSE
    /\ cpc = "idle"
    /\ request = NoRequest
    /\ auth = NoAuth
    /\ login_ok = {}
    /\ nops = 0

\* What one download_video call did: ledger0 and file0 are the ledger and
\* the target's existence on entry; page and direct count the GETs of the
\* video page and of the stream; tool is ffmpeg's result; exc is where an
\* exception was caught; unlink is the cleanup's result; added says
\* self.downloaded_ids.add ran; save is _save_download_history's result;
\* outcome is what the call reported.
NoCall ==
    [ ledger0 |-> {}, file0 |-> FALSE, page |-> 0, direct |-> 0,
      tool |-> "none", exc |-> "none", unlink |-> "none", added |-> FALSE,
      save |-> "none", outcome |-> "none" ]

NoBatch ==
    [ status |-> "none", processed |-> <<>>, nsuccess |-> 0, nfailed |-> 0,
      nskipped |-> 0 ]

NoHist == [id |-> "none", skip |-> FALSE, outcome |-> "none", fetches |-> 0]

NoStats == [total |-> 0, success |-> 0, failed |-> 0, skipped |-> 0]

\* network fetches of the stream in a call: the direct GET or ffmpeg's
Fetches(c) == c.direct + (IF c.tool \in {"ok", "nonzero", "timeout"} THEN 1 ELSE 0)

\* ------------------------------------------- state of the listing functions
VARIABLES
    client,    \* the client argument of search_videos / get_profile_videos
    listing,   \* the running search_videos / get_profile_videos call
    served     \* what the site has answered to that call so far

listing_vars == <<client, listing, served>>

\* --------------------------------------------- state of the utility functions
VARIABLES
    input,     \* the argument a utility function is applied to
    applied,   \* the functions applied so far, in order
    output     \* what the last application returned or raised

utils_vars == <<input, applied, output>>

all_vars == <<vars, client_vars, listing_vars, utils_vars>>

\* The limit argument: None, or an int.
None == [given |-> FALSE, n |-> 0]

\* The locals of a search_videos / get_profile_videos call: pc is "idle",
\* "lookup" (before the nickname search), "fetch" (at the top of the page
\* loop), "returned" or "raised"; page is current_page / page; videos is
\* the list the call is building and, once pc is "returned", its result.
NoListing ==
    [ fn |-> "none", pc |-> "idle", profile_identifier |-> <<>>,
      min_duration |-> 0, limit |-> None, page |-> 0, videos |-> <<>>,
      error |-> "none" ]

\* What the site has been asked during the call: lookups and fetches count
\* the requests for the nickname search and for listing pages, lookup is
\* what the nickname search ended in, numbers are
\* the page numbers requested, raw is whether the last listing page had
\* raw items, next whether it had a next-page link, kept how many of its
\* records passed the filter, cause what ended the call, on_site the
\* records the pages served hold, unparsed how many of them (the last ones)
\* the call returned without parsing.
NoServed ==
    [ lookups |-> 0, lookup |-> "none", fetches |-> 0, numbers |-> <<>>,
      raw |-> FALSE,
      next |-> FALSE, kept |-> 0, cause |-> "none", on_site |-> <<>>,
      unparsed |-> 0 ]

\* no listing function has been called; the client has not logged in
ListingStart ==
    /\ client = [authenticated |-> FALSE]
    /\ listing = NoListing
    /\ served = NoServed

\* A Python str is the sequence of its characters.  A utility function is
\* given a str (text), an int (seconds) or a str with a length (max_length).
NoInput ==
    [ kind |-> "none", text |-> <<>>, seconds |-> 0, max_length |-> 0,
      uploader |-> <<>>, video_id |-> <<>> ]

\* What a call ends in: a returned int (value), a returned str (text), or a
\* raised ValueError.
NoOutput == [raised |-> FALSE, value |-> 0, text |-> <<>>]

\* no utility function has been called
UtilsStart ==
    /\ input = NoInput
    /\ applied = <<>>
    /\ output = NoOutput

\* VideoDownloader.__init__ on an output directory holding ledger file f
DownloaderStart ==
    /\ history_file \in InitialLedgerFiles
    /\ downloaded_ids = LoadHistory(history_file).value
    /\ fresh = TRUE
    /\ initial_ids = downloaded_ids
    /\ committed = downloaded_ids
    /\ files = {}
    /\ dirs = {}
    /\ pc = "idle"
    /\ video = "none"
    /\ skip_existing = TRUE
    /\ caller = "none"
    /\ download_url = NoUrl
    /\ videos = <<>>
    /\ idx = 0
    /\ stats = NoStats
    /\ call = NoCall
    /\ batch = NoBatch
    /\ hist = NoHist
    /\ completed = {}
    /\ ncalls = 0
    /\ restarts = 0

\* every component as its construction leaves it
Init ==
    /\ DownloaderStart
    /\ ClientStart
    /\ ListingStart
    /\ UtilsStart

\* ------------------------------------------------------ download_video
\* line 113: skip_existing and video_info.video_id in self.downloaded_ids
AlreadyDownloaded(skip, id, ledger) == skip /\ id \in ledger

\* line 127: filepath.exists() and skip_existing
FileExistsSkip(skip, path, fs) == skip /\ path \in fs

\* a bug: the id is never added
MarkDownloadedForgets(ledger, id) == ledger

\* lines 129 and 197: self.downloaded_ids.add(video_info.video_id)
MarkDownloaded(ledger, id) == ledger \cup {id}

\* line 154: ".m3u8" in download_url
IsHLS(url) == url.hls

\* lines 148-149: a relative URL gets config.base_url in front
AbsoluteUrl(url) == IF url.abs THEN url ELSE [url EXCEPT !.abs = TRUE]

\* a bug: result.returncode is not looked at
RemuxFailedTimeoutOnly(result) == result = "timeout"

\* lines 175-180: a non-zero return code or TimeoutExpired returns False
RemuxFailed(result) == result \in {"nonzero", "timeout"}

\* a bug: no cleanup
CleanupForgotten(fs, path, unlink_ok) == fs

\* lines 207-211: the partial download is unlinked if it exists; a failing
\* unlink is swallowed and leaves the file
CleanupPartial(fs, path, unlink_ok) ==
    IF path \in fs /\ unlink_ok THEN fs \ {path} ELSE fs

\* what the cleanup did: nothing to delete, deleted, or failed to delete
UnlinkResult(fs, path, unlink_ok) ==
    IF path \notin fs THEN "none" ELSE IF unlink_ok THEN "ok" ELSE "failed"

\* what _get_video_download_url may return for a fetched page: None (the
\* request failed, no component, no props, bad JSON, no sources) or
\* sources[0].src
PageResults == {NoUrl, HlsUrl, Mp4Url}

\* entry of download_video(video_info, skip_existing)
EnterCall(id, who) ==
    /\ video' = id
    /\ caller' = who
    /\ download_url' = NoUrl
    /\ call' = [NoCall EXCEPT !.ledger0 = downloaded_ids,
                              !.file0 = FilePath(ById(id)) \in files]
    /\ ncalls' = ncalls + 1
    /\ pc' = "dv_start"

\* a caller other than download_videos calls download_video
CallDownloadVideo(v, skip) ==
    /\ pc = "idle"
    /\ ncalls < MaxCalls
    /\ EnterCall(v.video_id, "api")
    /\ skip_existing' = skip
    /\ fresh' = FALSE
    /\ videos' = <<>>
    /\ idx' = 0
    /\ stats' = NoStats
    /\ batch' = NoBatch
    /\ UNCHANGED <<downloaded_ids, disk, hist, initial_ids, restarts,
                   completed>>
    /\ UNCHANGED <<client_vars, listing_vars, utils_vars>>

\* a bug: the ledger hit does not return and the download goes ahead
SkipAlreadyDownloadedFallsThrough ==
    /\ pc = "dv_start"
    /\ AlreadyDownloaded(skip_existing, video, downloaded_ids)
    /\ dirs' = dirs \cup {UserDir(ById(video))}
    /\ pc' = "dv_resolve"
    /\ UNCHANGED <<downloaded_ids, history_file, files, committed, video,
                   skip_existing, caller, download_url, call, loop, hist,
                   object, completed, ncalls>>
    /\ UNCHANGED <<client_vars, listing_vars, utils_vars>>

\* lines 112-115: already in the ledger: "Skipping ... (already downloaded)"
SkipAlreadyDownloaded ==
    /\ pc = "dv_start"
    /\ AlreadyDownloaded(skip_existing, video, downloaded_ids)
    /\ call' = [call EXCEPT !.outcome = "Skipped"]
    /\ pc' = "dv_ret"
    /\ UNCHANGED <<downloaded_ids, disk, video, skip_existing, caller,
                   download_url, loop, hist, object, completed, ncalls>>
    /\ UNCHANGED <<client_vars, listing_vars, utils_vars>>

\* lines 117-119: ensure_directory(user_dir) raises (mkdir of a directory
\* that does not exist yet fails); the line is outside the try of line 133,
\* so the exception leaves download_video and, with it, download_videos
EnsureDirectoryRaises ==
    /\ pc = "dv_start"
    /\ ~AlreadyDownloaded(skip_existing, video, downloaded_ids)
    /\ UserDir(ById(video)) \notin dirs
    /\ call' = [call EXCEPT !.exc = "mkdir"]
    /\ batch' = IF caller = "batch" THEN [batch EXCEPT !.status = "aborted"]
                ELSE batch
    /\ pc' = "raised"
    /\ UNCHANGED <<downloaded_ids, disk, video, skip_existing, caller,
                   download_url, videos, idx, stats, hist, object, completed,
                   ncalls>>
    /\ UNCHANGED <<client_vars, listing_vars, utils_vars>>

\* lines 117-130: the target file exists: "Skipping ... (file exists)", the
\* id is added and the ledger saved
SkipFileExists ==
    /\ pc = "dv_start"
    /\ ~AlreadyDownloaded(skip_existing, video, downloaded_ids)
    /\ UserDir(ById(video)) \in dirs
    /\ FileExistsSkip(skip_existing, FilePath(ById(video)), files)
    /\ downloaded_ids' = MarkDownloaded(downloaded_ids, video)
    /\ call' = [call EXCEPT !.added = TRUE, !.outcome = "Skipped"]
    /\ pc' = "save_open"
    /\ UNCHANGED <<disk, video, skip_existing, caller, download_url, loop,
                   hist, object, completed, ncalls>>
    /\ UNCHANGED <<client_vars, listing_vars, utils_vars>>

\* lines 117-135: the directory is there or is created, and there is
\* nothing to skip
BeginProcessing ==
    /\ pc = "dv_start"
    /\ ~AlreadyDownloaded(skip_existing, video, downloaded_ids)
    /\ ~FileExistsSkip(skip_existing, FilePath(ById(video)), files)
    /\ dirs' = dirs \cup {UserDir(ById(video))}
    /\ pc' = "dv_resolve"
    /\ UNCHANGED <<downloaded_ids, history_file, files, committed, video,
                   skip_existing, caller, download_url, call, loop, hist,
                   object, completed, ncalls>>
    /\ UNCHANGED <<client_vars, listing_vars, utils_vars>>

\* a bug: the record's own download_url is ignored and the page always fetched
ResolveUrlAlwaysFetchesPage ==
    /\ pc = "dv_resolve"
    /\ \E found \in PageResults :
        IF found.present
        THEN /\ download_url' = AbsoluteUrl(found)
             /\ call' = [call EXCEPT !.page = 1]
             /\ pc' = "dv_transfer"
        ELSE /\ download_url' = found
             /\ call' = [call EXCEPT !.page = 1, !.outcome = "Failed"]
             /\ pc' = "dv_ret"
    /\ UNCHANGED <<downloaded_ids, disk, video, skip_existing, caller, loop,
                   hist, object, completed, ncalls>>
    /\ UNCHANGED <<client_vars, listing_vars, utils_vars>>

\* lines 137-149: the record's download_url, else the one extracted from
\* the video page; none: "Could not find download URL", return False
ResolveUrl ==
    /\ pc = "dv_resolve"
    /\ \E found \in PageResults :
        LET own == ById(video).download_url
            url == IF own.present THEN own ELSE found
            pages == IF own.present THEN 0 ELSE 1
        IN /\ (own.present => found = NoUrl)
           /\ IF url.present
              THEN /\ download_url' = AbsoluteUrl(url)
                   /\ call' = [call EXCEPT !.page = pages]
                   /\ pc' = "dv_transfer"
              ELSE /\ download_url' = url
                   /\ call' = [call EXCEPT !.page = pages, !.outcome = "Failed"]
                   /\ pc' = "dv_ret"
    /\ UNCHANGED <<downloaded_ids, disk, video, skip_existing, caller, loop,
                   hist, object, completed, ncalls>>
    /\ UNCHANGED <<client_vars, listing_vars, utils_vars>>

\* lines 153-180 and 196-197: ffmpeg -i url -c copy -y filepath under a 600 s
\* timeout.  "oserror": subprocess.run itself raises (no ffmpeg), which the
\* except of line 204 catches.  "nonzero" and "timeout": return False at
\* once; ffmpeg's partial output, if it got as far as creating it, stays.
\* "ok": exit code 0, the file is complete, on to line 196.
RemuxHLS ==
    /\ pc = "dv_transfer"
    /\ IsHLS(download_url)
    /\ \E result \in {"ok", "nonzero", "timeout", "oserror"},
          leaves_output \in BOOLEAN, unlink_ok \in BOOLEAN :
        LET path == FilePath(ById(video)) IN
        CASE result = "oserror" ->
               /\ leaves_output
               /\ files' = CleanupPartial(files, path, unlink_ok)
               /\ call' = [call EXCEPT !.tool = result, !.exc = "remux",
                              !.unlink = UnlinkResult(files, path, unlink_ok),
                              !.outcome = "Failed"]
               /\ pc' = "dv_ret"
               /\ UNCHANGED <<completed, downloaded_ids>>
          [] result # "oserror" /\ RemuxFailed(result) ->
               /\ unlink_ok
               /\ files' = IF leaves_output THEN files \cup {path} ELSE files
               /\ call' = [call EXCEPT !.tool = result, !.outcome = "Failed"]
               /\ pc' = "dv_ret"
               /\ UNCHANGED <<completed, downloaded_ids>>
          [] OTHER ->
               \* falls through to lines 196-198
               /\ leaves_output /\ unlink_ok
               /\ files' = files \cup {path}
               /\ completed' = IF result = "ok" THEN completed \cup {video}
                               ELSE completed
               /\ downloaded_ids' = MarkDownloaded(downloaded_ids, video)
               /\ call' = [call EXCEPT !.tool = result, !.added = TRUE,
                                       !.outcome = "Success"]
               /\ pc' = "save_open"
    /\ UNCHANGED <<history_file, dirs, committed, video, skip_existing,
                   caller, download_url, loop, hist, object, ncalls>>
    /\ UNCHANGED <<client_vars, listing_vars, utils_vars>>

\* lines 182-212: self.client.session.get(download_url, stream=True), the
\* body written to filepath in chunks.  "ok": all chunks written.
\* "request_error": get or raise_for_status raises before the file is
\* opened.  "write_error": the file is open and a read or write raises.
\* Both are caught at line 204: the file is unlinked if there, False is
\* returned.  "interrupt": KeyboardInterrupt while streaming, no Exception,
\* so nothing catches it and the partial file stays.
DirectDownload ==
    /\ pc = "dv_transfer"
    /\ ~IsHLS(download_url)
    /\ \E result \in {"ok", "request_error", "write_error", "interrupt"},
          unlink_ok \in BOOLEAN :
        LET path == FilePath(ById(video))
            opened == IF result = "request_error" THEN files
                      ELSE files \cup {path}
        IN
        CASE result = "ok" ->
               /\ unlink_ok
               /\ files' = opened
               /\ completed' = completed \cup {video}
               /\ downloaded_ids' = MarkDownloaded(downloaded_ids, video)
               /\ call' = [call EXCEPT !.direct = 1, !.added = TRUE,
                                       !.outcome = "Success"]
               /\ pc' = "save_open"
               /\ UNCHANGED <<video, caller, download_url, skip_existing,
                              loop, hist>>
          [] result = "interrupt" ->
               /\ unlink_ok
               /\ files' = opened
               /\ call' = NoCall
               /\ batch' = NoBatch
               /\ video' = "none"
               /\ caller' = "none"
               /\ download_url' = NoUrl
               /\ videos' = <<>>
               /\ idx' = 0
               /\ stats' = NoStats
               /\ skip_existing' = TRUE
               /\ hist' = NoHist
               /\ pc' = "dead"
               /\ UNCHANGED <<completed, downloaded_ids>>
          [] OTHER ->
               /\ files' = CleanupPartial(opened, path, unlink_ok)
               /\ call' = [call EXCEPT !.direct = 1, !.exc = "direct",
                              !.unlink = UnlinkResult(opened, path, unlink_ok),
                              !.outcome = "Failed"]
               /\ pc' = "dv_ret"
               /\ UNCHANGED <<completed, downloaded_ids, video, caller,
                              download_url, skip_existing, loop, hist>>
    /\ UNCHANGED <<history_file, dirs, committed, object, ncalls>>
    /\ UNCHANGED <<client_vars, listing_vars, utils_vars>>

\* ------------------------------------------------ _save_download_history
\* lines 51-53: ensure_directory(output_dir) (the directory exists: the
\* uploader directory below it does), then open(file, "w"), which truncates
\* the file; if open raises, the warning of line 56 is printed
SaveOpen ==
    /\ pc = "save_open"
    /\ \E open_ok \in BOOLEAN :
        IF open_ok
        THEN /\ history_file' = TruncatedFile
             /\ pc' = "save_write"
             /\ call' = call
        ELSE /\ history_file' = history_file
             /\ pc' = "dv_ret"
             /\ call' = [call EXCEPT !.save = "failed"]
    /\ UNCHANGED <<downloaded_ids, files, dirs, committed, video,
                   skip_existing, caller, download_url, loop, hist, object,
                   completed, ncalls>>
    /\ UNCHANGED <<client_vars, listing_vars, utils_vars>>

\* lines 54-56: json.dump writes the whole set and the file is closed; if
\* the write raises, the warning is printed and the file stays as far as
\* it got.  Then download_video goes on to its return True.
SaveWrite ==
    /\ pc = "save_write"
    /\ \E write_ok \in BOOLEAN :
        IF write_ok
        THEN /\ history_file' = DumpHistory(downloaded_ids)
             /\ committed' = downloaded_ids
             /\ call' = [call EXCEPT !.save = "ok"]
        ELSE /\ history_file' = TruncatedFile
             /\ committed' = committed
             /\ call' = [call EXCEPT !.save = "failed"]
    /\ pc' = "dv_ret"
    /\ UNCHANGED <<downloaded_ids, files, dirs, video, skip_existing, caller,
                   download_url, loop, hist, object, completed, ncalls>>
    /\ UNCHANGED <<client_vars, listing_vars, utils_vars>>

\* the user interrupts, or the process is killed, between the truncation
\* and the write of the ledger file
InterruptSave ==
    /\ pc = "save_write"
    /\ pc' = "dead"
    /\ call' = NoCall
    /\ batch' = NoBatch
    /\ video' = "none"
    /\ caller' = "none"
    /\ download_url' = NoUrl
    /\ videos' = <<>>
    /\ idx' = 0
    /\ stats' = NoStats
    /\ skip_existing' = TRUE
    /\ hist' = NoHist
    /\ UNCHANGED <<downloaded_ids, disk, object, completed, ncalls>>
    /\ UNCHANGED <<client_vars, listing_vars, utils_vars>>

\* ------------------------------------------------------ download_videos
\* lines 243-246: download_video's True counts as success, False as failed
ReturnValue(outcome) == outcome # "Failed"

CountResult(st, ok) ==
    IF ok THEN [st EXCEPT !.success = st.success + 1]
    ELSE [st EXCEPT !.failed = st.failed + 1]

\* line 225: stats = {"total": len(videos), "success": 0, ...} for a list
\* of len_videos records; the records themselves are drawn when the loop
\* reads them
CallDownloadVideos(len_videos, skip) ==
    /\ pc = "idle"
    /\ ncalls + len_videos <= MaxCalls
    /\ videos' = <<>>
    /\ idx' = 1
    /\ stats' = [NoStats EXCEPT !.total = len_videos]
    /\ batch' = [NoBatch EXCEPT !.status = "running"]
    /\ skip_existing' = skip
    /\ pc' = "loop"
    /\ fresh' = FALSE
    /\ UNCHANGED <<downloaded_ids, disk, video, caller, download_url, call,
                   hist, initial_ids, restarts, completed, ncalls>>
    /\ UNCHANGED <<client_vars, listing_vars, utils_vars>>

\* lines 230-240: the next record is already in the ledger: skipped
BatchSkip ==
    /\ pc = "loop"
    /\ idx <= stats.total
    /\ \E v \in Videos :
        /\ videos' = Append(videos, v)
        /\ skip_existing /\ v.video_id \in downloaded_ids
        /\ batch' = [batch EXCEPT
                        !.processed = Append(batch.processed, v.video_id),
                        !.nskipped = batch.nskipped + 1]
    /\ stats' = [stats EXCEPT !.skipped = stats.skipped + 1]
    /\ idx' = idx + 1
    /\ ncalls' = ncalls + 1
    /\ UNCHANGED <<downloaded_ids, disk, pc, video, skip_existing, caller,
                   download_url, call, hist, object, completed>>
    /\ UNCHANGED <<client_vars, listing_vars, utils_vars>>

\* lines 230-242: success = self.download_video(video, skip_existing)
BatchCall ==
    /\ pc = "loop"
    /\ idx <= stats.total
    /\ \E v \in Videos :
        /\ videos' = Append(videos, v)
        /\ ~(skip_existing /\ v.video_id \in downloaded_ids)
        /\ EnterCall(v.video_id, "batch")
    /\ UNCHANGED <<downloaded_ids, disk, skip_existing, idx, stats, batch,
                   hist, object, completed>>
    /\ UNCHANGED <<client_vars, listing_vars, utils_vars>>

\* lines 248-258: the summary is printed and stats returned
BatchFinish ==
    /\ pc = "loop"
    /\ idx > stats.total
    /\ batch' = [batch EXCEPT !.status = "done"]
    /\ pc' = "idle"
    /\ skip_existing' = TRUE
    /\ UNCHANGED <<downloaded_ids, disk, video, caller, download_url, videos,
                   idx, stats, call, hist, object, completed, ncalls>>
    /\ UNCHANGED <<client_vars, listing_vars, utils_vars>>

\* download_video returns; in a batch, lines 243-246 count the result
DvReturn ==
    /\ pc = "dv_ret"
    /\ hist' = IF skip_existing
               THEN [id |-> video, skip |-> skip_existing,
                     outcome |-> call.outcome, fetches |-> Fetches(call)]
               ELSE NoHist
    /\ IF caller = "batch"
       THEN /\ stats' = CountResult(stats, ReturnValue(call.outcome))
            /\ batch' = [batch EXCEPT
                  !.processed = Append(batch.processed, video),
                  !.nsuccess = batch.nsuccess +
                               (IF call.outcome = "Success" THEN 1 ELSE 0),
                  !.nfailed = batch.nfailed +
                              (IF call.outcome = "Failed" THEN 1 ELSE 0),
                  !.nskipped = batch.nskipped +
                               (IF call.outcome = "Skipped" THEN 1 ELSE 0)]
            /\ idx' = idx + 1
            /\ skip_existing' = skip_existing
            /\ pc' = "loop"
       ELSE /\ pc' = "idle"
            /\ skip_existing' = TRUE
            /\ UNCHANGED <<stats, batch, idx>>
    /\ video' = "none"
    /\ caller' = "none"
    /\ download_url' = NoUrl
    /\ call' = NoCall
    /\ UNCHANGED <<downloaded_ids, disk, videos, object, completed, ncalls>>
    /\ UNCHANGED <<client_vars, listing_vars, utils_vars>>

\* ---------------------------------------------------------- construction
\* VideoDownloader.__init__ (lines 33-36) in a new run on the same output
\* directory, after the previous run ended, was interrupted or died of an
\* exception
Construct ==
    /\ pc \in {"idle", "dead", "raised"}
    /\ restarts < MaxRestarts
    /\ restarts' = restarts + 1
    /\ IF LoadHistory(history_file).exc
       THEN /\ pc' = "raised"
            /\ downloaded_ids' = {}
       ELSE /\ pc' = "idle"
            /\ downloaded_ids' = LoadHistory(history_file).value
    /\ fresh' = TRUE
    /\ initial_ids' = downloaded_ids'
    /\ hist' = NoHist
    /\ video' = "none"
    /\ caller' = "none"
    /\ download_url' = NoUrl
    /\ videos' = <<>>
    /\ idx' = 0
    /\ stats' = NoStats
    /\ call' = NoCall
    /\ batch' = NoBatch
    /\ skip_existing' = TRUE
    /\ UNCHANGED <<disk, completed, ncalls>>
    /\ UNCHANGED <<client_vars, listing_vars, utils_vars>>

Next ==
    \/ \E v \in Videos, skip \in BOOLEAN : CallDownloadVideo(v, skip)
    \/ SkipAlreadyDownloaded
    \/ EnsureDirectoryRaises
    \/ SkipFileExists
    \/ BeginProcessing
    \/ ResolveUrl
    \/ RemuxHLS
    \/ DirectDownload
    \/ SaveOpen
    \/ SaveWrite
    \/ InterruptSave
    \/ \E len_videos \in 1..MaxBatch, skip \in BOOLEAN :
          CallDownloadVideos(len_videos, skip)
    \/ BatchSkip
    \/ BatchCall
    \/ BatchFinish
    \/ DvReturn
    \/ Construct

Spec == Init /\ [][Next]_all_vars

\* ------------------------------------------------------- FetLifeClient
\* the status codes a server answers with in the model: plain success,
\* another success, two redirects, a client error, a server error
Statuses == {200, 204, 302, 307, 401, 503}

Outcomes == {ConnectError, ReadError} \cup {Response(st) : st \in Statuses}

\* client.py line 32: status_forcelist
status_forcelist == {429, 500, 502, 503, 504}

\* client.py line 33: allowed_methods
allowed_methods == {"HEAD", "GET", "OPTIONS"}

\* the transport's method for a client call
HttpMethod(call_name) == IF call_name = "post" THEN "POST" ELSE "GET"

\* a bug: the method is not looked at
IsRetryAnyMethod(http_method, outcome) ==
    \/ outcome.kind \in {"connect_error", "read_error"}
    \/ outcome.kind = "response" /\ outcome.status \in status_forcelist

\* client.py lines 29-35, the Retry policy mounted on the session: a failed
\* connection attempt is tried again whatever the method (nothing reached
\* the server); a request that was sent is sent again, after a broken
\* connection or a status of status_forcelist, only for allowed_methods
IsRetry(http_method, outcome) ==
    \/ outcome.kind = "connect_error"
    \/ /\ http_method \in allowed_methods
       /\ \/ outcome.kind = "read_error"
          \/ outcome.kind = "response" /\ outcome.status \in status_forcelist

\* a bug: one attempt more than total allows
IsExhaustedOneLate(attempts) == attempts > RetryTotal + 1

\* client.py line 30: total=3: the first attempt and three more
IsExhausted(attempts) == attempts > RetryTotal

\* the session follows a redirect (get by default, post with the
\* allow_redirects=True of auth.py line 110)
IsRedirect(outcome) == outcome.kind = "response" /\ outcome.status \in {302, 307}

\* the method of the request that follows a redirect: 307 keeps it, 302
\* turns a POST into a GET
RedirectMethod(http_method, status) ==
    IF status = 307 THEN http_method ELSE "GET"

\* client.py lines 74, 101, 125: response.raise_for_status()
RaisesForStatus(status) == status >= 400

\* a bug: no sleep
WakeTimeNoSleep(now, last) == now

\* client.py lines 45-49: the earliest time _rate_limit goes on at
WakeTime(now, last) ==
    IF now - last < rate_limit_delay THEN last + rate_limit_delay ELSE now

\* the calls that send requests on the client's session: the client's three
\* methods and download_video's self.client.session.get (downloader.py
\* line 184)
ClientCalls == {"get", "post", "download_file", "session_get"}

\* entry of a client call: get, post and download_file start with
\* self._rate_limit(); session.get goes to the transport at once
StartRequest(call_name) ==
    /\ request' = [NoRequest EXCEPT !.method = call_name,
                                    !.stamp0 = last_request_time,
                                    !.hop_method = HttpMethod(call_name)]
    /\ cpc' = IF call_name = "session_get" THEN "transport" ELSE "rate_limit"

\* some user of the client (search, profile, downloader) makes a call
ClientCall(call_name) ==
    /\ cpc = "idle"
    /\ nops < MaxOps
    /\ nops' = nops + 1
    /\ auth' = [NoAuth EXCEPT !.fn = "client", !.flag0 = authenticated,
                              !.token0 = csrf_token, !.calls = 1]
    /\ StartRequest(call_name)
    /\ UNCHANGED <<clock, last_request_time, csrf_token, authenticated,
                   login_ok>>
    /\ UNCHANGED <<vars, listing_vars, utils_vars>>

\* time passes: between the operations, before a call and while a call is
\* with the transport (seen when it comes back)
Tick ==
    /\ cpc \in {"idle", "rate_limit", "client_ret"}
    /\ clock < MaxTime
    /\ clock' = clock + 1
    /\ UNCHANGED <<last_request_time, csrf_token, authenticated, cpc, request,
                   auth, login_ok, nops>>
    /\ UNCHANGED <<vars, listing_vars, utils_vars>>

\* client.py lines 43-51, FetLifeClient._rate_limit: time.sleep sleeps for
\* at least what it is asked for, then the timestamp is recorded
RateLimit ==
    /\ cpc = "rate_limit"
    /\ \E wake \in WakeTime(clock, last_request_time)..MaxTime :
        /\ wake = clock \/ clock - last_request_time < rate_limit_delay
        /\ clock' = wake
        /\ last_request_time' = wake
    /\ request' = [request EXCEPT !.limited = TRUE]
    /\ cpc' = "transport"
    /\ UNCHANGED <<csrf_token, authenticated, auth, login_ok, nops>>
    /\ UNCHANGED <<vars, listing_vars, utils_vars>>

\* the clock has not reached the previous timestamp plus the delay
TooEarly(stamp) == clock < stamp + rate_limit_delay

\* the exception leaves the call (lines 76-77, 103-104, 135-136)
Raised(req, outcome, elem) ==
    [req EXCEPT !.result = "raised", !.status = outcome.status, !.elem = elem]

\* client.py lines 73-75, 100-102, 124-134: one connection attempt of
\* session.get / session.post under the Retry policy, then redirects and
\* raise_for_status; download_file also writes the body to the file
Attempt ==
    /\ cpc = "transport"
    /\ \E outcome \in Outcomes, to_home \in BOOLEAN, elem \in {"none", "e1"},
          write_ok \in BOOLEAN :
        LET n == request.attempts + 1
            sent == IF outcome.kind = "connect_error" THEN 0 ELSE 1
            req == [request EXCEPT
                      !.attempts = n,
                      !.hop_sends = @ + sent,
                      !.sends = @ + sent,
                      !.early = @ \/ (sent = 1 /\ TooEarly(request.stamp0))]
            final == /\ outcome.kind = "response"
                     /\ ~IsRetry(request.hop_method, outcome)
                     /\ ~IsRedirect(outcome)
        IN
        /\ to_home => IsRedirect(outcome) /\ request.hops < MaxRedirects
        /\ elem # "none" => final /\ request.method = "post"
        /\ ~write_ok => /\ final /\ request.method = "download_file"
                        /\ ~RaisesForStatus(outcome.status)
        /\ CASE IsRetry(request.hop_method, outcome) ->
                  IF IsExhausted(n)
                  THEN /\ request' = Raised(req, NoOutcome, "none")
                       /\ cpc' = "client_ret"
                  ELSE /\ request' = [req EXCEPT !.cause = outcome]
                       /\ cpc' = "transport"
             [] ~IsRetry(request.hop_method, outcome)
                  /\ outcome.kind # "response" ->
                  /\ request' = Raised(req, NoOutcome, "none")
                  /\ cpc' = "client_ret"
             [] ~IsRetry(request.hop_method, outcome) /\ IsRedirect(outcome) ->
                  IF request.hops < MaxRedirects
                  THEN /\ request' =
                           [req EXCEPT
                              !.hops = @ + 1, !.attempts = 0, !.hop_sends = 0,
                              !.home = to_home, !.cause = NoOutcome,
                              !.hop_method =
                                  RedirectMethod(@, outcome.status)]
                       /\ cpc' = "transport"
                  ELSE /\ request' = Raised(req, NoOutcome, "none")
                       /\ cpc' = "client_ret"
             [] OTHER ->
                  /\ request' =
                       IF RaisesForStatus(outcome.status) \/ ~write_ok
                       THEN Raised(req, outcome, elem)
                       ELSE [req EXCEPT !.result = "response",
                                        !.status = outcome.status,
                                        !.elem = elem]
                  /\ cpc' = "client_ret"
    /\ UNCHANGED <<clock, last_request_time, csrf_token, authenticated, auth,
                   login_ok, nops>>
    /\ UNCHANGED <<vars, listing_vars, utils_vars>>

\* the call returns to a user that is neither authenticate nor
\* verify_authentication
ClientReturn ==
    /\ cpc = "client_ret"
    /\ auth.fn = "client"
    /\ cpc' = "idle"
    /\ request' = NoRequest
    /\ auth' = NoAuth
    /\ UNCHANGED <<clock, last_request_time, csrf_token, authenticated,
                   login_ok, nops>>
    /\ UNCHANGED <<vars, listing_vars, utils_vars>>

\* --------------------------------------------------------------- auth.py
\* a bug: a token is made up when the page has none
ExtractCsrfTokenDefaults(page) ==
    IF page.meta # "none" THEN page.meta
    ELSE IF page.input # "none" THEN page.input
    ELSE "t1"

\* auth.py lines 17-44, extract_csrf_token: the meta tag, else the hidden
\* input, else the script text, else None
ExtractCsrfToken(page) ==
    IF page.meta # "none" THEN page.meta
    ELSE IF page.input # "none" THEN page.input
    ELSE page.script

\* a bug: the final URL is not looked at
LoginSucceededAnyUrl(status, home) == status = 200

\* a bug: the status code is not looked at
LoginSucceededAnyStatus(status, home) == home

\* auth.py line 114: response.status_code == 200 and "/home" in response.url
LoginSucceeded(status, home) == status = 200 /\ home

\* a bug: any page counts as logged in
LogoutLinkAssumed(logout) == TRUE

\* auth.py lines 156-157: bool(soup.find("a", href=.../session...delete))
LogoutLinkFound(logout) == logout

\* an operation on the client ends: its result stands in auth
AuthDone(a, outcome, message) ==
    /\ auth' = [a EXCEPT !.outcome = outcome, !.message = message]
    /\ cpc' = "auth_done"
    /\ request' = NoRequest

\* auth.py lines 62-75: authenticate(client, username, password); without
\* credentials it raises before any request, else it gets the login page
CallAuthenticate(has_credentials) ==
    /\ cpc = "idle"
    /\ nops < MaxOps
    /\ nops' = nops + 1
    /\ LET a == [NoAuth EXCEPT !.fn = "authenticate", !.step = "login_page",
                               !.flag0 = authenticated, !.token0 = csrf_token]
       IN IF has_credentials
          THEN /\ auth' = [a EXCEPT !.calls = 1]
               /\ StartRequest("get")
          ELSE AuthDone(a, "AuthenticationError", "credentials")
    /\ UNCHANGED <<clock, last_request_time, csrf_token, authenticated,
                   login_ok>>
    /\ UNCHANGED <<vars, listing_vars, utils_vars>>

\* auth.py lines 75-110: the login page came back or client.get raised; the
\* token is extracted; without one the page is saved for debugging and
\* AuthenticationError raised (an OSError of that save is wrapped by line
\* 134); with one it is stored and the form posted
AuthLoginPage ==
    /\ cpc = "client_ret"
    /\ auth.fn = "authenticate" /\ auth.step = "login_page"
    /\ \E page \in LoginPages, debug_ok \in BOOLEAN :
        LET token == ExtractCsrfToken(page)
            a == [auth EXCEPT !.fetched = request.result = "response",
                              !.page = page]
        IN
        CASE request.result = "raised" ->
               /\ page = NoPage /\ debug_ok
               /\ AuthDone(a, "AuthenticationError", "wrapped")
               /\ UNCHANGED csrf_token
          [] request.result # "raised" /\ token = "none" ->
               /\ AuthDone(a, "AuthenticationError",
                           IF debug_ok THEN "no_token" ELSE "wrapped")
               /\ UNCHANGED csrf_token
          [] OTHER ->
               /\ debug_ok
               /\ csrf_token' = token
               /\ auth' = [a EXCEPT !.step = "login_post", !.posted = TRUE,
                                    !.calls = 2]
               /\ StartRequest("post")
    /\ UNCHANGED <<clock, last_request_time, authenticated, login_ok, nops>>
    /\ UNCHANGED <<vars, listing_vars, utils_vars>>

\* auth.py lines 110-134: client.post returned or raised.  A RequestException
\* (also the one raise_for_status makes of a 4xx or 5xx answer) is wrapped
\* by line 134; 200 on a /home URL is success; anything else is scanned for
\* an error or alert element
AuthLoginResult ==
    /\ cpc = "client_ret"
    /\ auth.fn = "authenticate" /\ auth.step = "login_post"
    /\ LET a == [auth EXCEPT !.post = request] IN
       CASE request.result = "raised" ->
              /\ AuthDone(a, "AuthenticationError", "wrapped")
              /\ UNCHANGED authenticated
         [] request.result # "raised"
              /\ LoginSucceeded(request.status, request.home) ->
              /\ authenticated' = TRUE
              /\ AuthDone(a, "True", "none")
         [] OTHER ->
              /\ AuthDone(a, "AuthenticationError",
                          IF request.elem # "none" THEN "element"
                          ELSE "generic")
              /\ UNCHANGED authenticated
    /\ login_ok' = IF /\ request.result = "response"
                      /\ request.status = 200 /\ request.home
                   THEN login_ok \cup {csrf_token} ELSE login_ok
    /\ UNCHANGED <<clock, last_request_time, csrf_token, nops>>
    /\ UNCHANGED <<vars, listing_vars, utils_vars>>

\* auth.py lines 147-152: verify_authentication(client); not marked
\* authenticated: False at once, else the /home page is fetched
CallVerifyAuthentication ==
    /\ cpc = "idle"
    /\ nops < MaxOps
    /\ nops' = nops + 1
    /\ LET a == [NoAuth EXCEPT !.fn = "verify_authentication",
                               !.step = "probe", !.flag0 = authenticated,
                               !.token0 = csrf_token]
       IN IF ~authenticated
          THEN AuthDone(a, "False", "none")
          ELSE /\ auth' = [a EXCEPT !.calls = 1]
               /\ StartRequest("get")
    /\ UNCHANGED <<clock, last_request_time, csrf_token, authenticated,
                   login_ok>>
    /\ UNCHANGED <<vars, listing_vars, utils_vars>>

\* auth.py lines 152-159: the probe came back or raised; False for any
\* exception, else whether the page has a logout link
VerifyResult ==
    /\ cpc = "client_ret"
    /\ auth.fn = "verify_authentication"
    /\ \E logout \in BOOLEAN :
        LET a == [auth EXCEPT !.fetched = request.result = "response",
                              !.logout = logout]
        IN IF request.result = "raised"
           THEN /\ ~logout
                /\ AuthDone(a, "False", "none")
           ELSE AuthDone(a, IF LogoutLinkFound(logout) THEN "True"
                            ELSE "False", "none")
    /\ UNCHANGED <<clock, last_request_time, csrf_token, authenticated,
                   login_ok, nops>>
    /\ UNCHANGED <<vars, listing_vars, utils_vars>>

\* authenticate or verify_authentication has returned or raised
AuthReturn ==
    /\ cpc = "auth_done"
    /\ cpc' = "idle"
    /\ auth' = NoAuth
    /\ UNCHANGED <<clock, last_request_time, csrf_token, authenticated,
                   request, login_ok, nops>>
    /\ UNCHANGED <<vars, listing_vars, utils_vars>>

ClientNext ==
    \/ \E call_name \in ClientCalls : ClientCall(call_name)
    \/ Tick
    \/ RateLimit
    \/ Attempt
    \/ ClientReturn
    \/ \E has_credentials \in BOOLEAN : CallAuthenticate(has_credentials)
    \/ AuthLoginPage
    \/ AuthLoginResult
    \/ CallVerifyAuthentication
    \/ VerifyResult
    \/ AuthReturn

\* a FetLifeClient and its users, next to an idle downloader
ClientInit == Init /\ history_file = MissingFile

ClientSpec == ClientInit /\ [][ClientNext]_all_vars

\* ============================================================ src/src/utils.py
\* A character is a string of length one; DEL stands for U+007F and GRAVE
\* for U+0060, which have no spelling of their own.
DEL == "DEL"

GRAVE == "GRAVE"

\* the printable ASCII characters, in code point order from U+0020
Ascii ==
    << " ", "!", "\"", "#", "$", "%", "&", "'", "(", ")", "*", "+", ",", "-",
       ".", "/", "0", "1", "2", "3", "4", "5", "6", "7", "8", "9", ":", ";",
       "<", "=", ">", "?", "@", "A", "B", "C", "D", "E", "F", "G", "H", "I",
       "J", "K", "L", "M", "N", "O", "P", "Q", "R", "S", "T", "U", "V", "W",
       "X", "Y", "Z", "[", "\\", "]", "^", "_", GRAVE, "a", "b", "c", "d", "e",
       "f", "g", "h", "i", "j", "k", "l", "m", "n", "o", "p", "q", "r", "s",
       "t", "u", "v", "w", "x", "y", "z", "{", "|", "}", "~" >>

\* ord(char) of the characters the model uses
ord(c) ==
    CASE c = "\t" -> 9
      [] c = "\n" -> 10
      [] c = DEL -> 127
      [] OTHER -> 31 + (CHOOSE i \in DOMAIN Ascii : Ascii[i] = c)

\* the characters str.isdigit and the pattern \d accept
Digits == {Ascii[i] : i \in 17..26}

\* int(c) of one decimal digit
DigitValue(c) == ord(c) - ord("0")

\* the characters str.strip(), int() and the pattern \s take for blank
Whitespace == {" ", "\t", "\n"}

\* str.isdigit(): not empty and every character a digit
isdigit(s) == s # <<>> /\ \A i \in DOMAIN s : s[i] \in Digits

\* the number a string of decimal digits spells
RECURSIVE Decimal(_)
Decimal(s) ==
    IF s = <<>> THEN 0
    ELSE Decimal(SubSeq(s, 1, Len(s) - 1)) * 10 + DigitValue(s[Len(s)])

\* str.lstrip(chars)
RECURSIVE lstrip(_, _)
lstrip(s, chars) ==
    IF s # <<>> /\ Head(s) \in chars THEN lstrip(Tail(s), chars) ELSE s

\* str.rstrip(chars)
RECURSIVE rstrip(_, _)
rstrip(s, chars) ==
    IF s # <<>> /\ s[Len(s)] \in chars
    THEN rstrip(SubSeq(s, 1, Len(s) - 1), chars)
    ELSE s

\* str.strip(chars)
strip(s, chars) == rstrip(lstrip(s, chars), chars)

\* str.split(sep): the pieces between the occurrences of sep
RECURSIVE split(_, _)
split(s, sep) ==
    IF \E i \in DOMAIN s : s[i] = sep
    THEN LET i == CHOOSE k \in DOMAIN s :
                      s[k] = sep /\ \A j \in 1..(k - 1) : s[j] # sep
         IN <<SubSeq(s, 1, i - 1)>> \o split(SubSeq(s, i + 1, Len(s)), sep)
    ELSE <<s>>

\* a returned int
Value(n) == [raised |-> FALSE, value |-> n, text |-> <<>>]

\* a returned str
Text(s) == [raised |-> FALSE, value |-> 0, text |-> s]

\* a raised ValueError
ValueError == [raised |-> TRUE, value |-> 0, text |-> <<>>]

\* int(s) of a str: blanks around the literal are dropped, one sign may
\* lead it, and single underscores may stand between its digits
int(s) ==
    LET t == strip(s, Whitespace)
        signed == t # <<>> /\ Head(t) \in {"+", "-"}
        body == IF signed THEN Tail(t) ELSE t
        digits == SelectSeq(body, LAMBDA c : c # "_")
        wellformed ==
            /\ body # <<>>
            /\ \A i \in DOMAIN body : body[i] \in Digits \cup {"_"}
            /\ body[1] # "_"
            /\ body[Len(body)] # "_"
            /\ \A i \in 1..(Len(body) - 1) : ~(body[i] = "_" /\ body[i + 1] = "_")
    IN IF ~wellformed THEN ValueError
       ELSE IF signed /\ Head(t) = "-" THEN Value(0 - Decimal(digits))
       ELSE Value(Decimal(digits))

\* how many digits s starts with
LeadingDigits(s) ==
    CHOOSE k \in 0..Len(s) :
        /\ \A i \in 1..k : s[i] \in Digits
        /\ k < Len(s) => s[k + 1] \notin Digits

\* a parse_duration without the shorthand format
ShorthandGroupSkipped(s, unit) == [found |-> FALSE, n |-> 0, rest |-> s]

\* One optional group (?:(\d+)<unit>)? of shorthand_pattern matched at the
\* start of s: whether it took part, the number it captured, and what is
\* left for the groups after it.
ShorthandGroup(s, unit) ==
    LET k == LeadingDigits(s)
    IN IF k > 0 /\ k < Len(s) /\ s[k + 1] = unit
       THEN [found |-> TRUE, n |-> Decimal(SubSeq(s, 1, k)),
             rest |-> SubSeq(s, k + 2, Len(s))]
       ELSE [found |-> FALSE, n |-> 0, rest |-> s]

\* parse_duration (utils.py lines 27-60)
parse_duration(duration_str) ==
    IF duration_str = <<>> THEN Value(0)
    ELSE
    LET s == strip(duration_str, Whitespace)
        h == ShorthandGroup(s, "h")
        m == ShorthandGroup(h.rest, "m")
        sec == ShorthandGroup(m.rest, "s")
        time_parts == split(s, ":")
        numbers == [i \in DOMAIN time_parts |-> int(time_parts[i])]
        numeric == \A i \in DOMAIN numbers : ~numbers[i].raised
    IN IF isdigit(s) THEN Value(Decimal(s))
       ELSE IF sec.rest = <<>> /\ (h.found \/ m.found \/ sec.found)
       THEN Value(h.n * 3600 + m.n * 60 + sec.n)
       ELSE IF Len(time_parts) = 2 /\ numeric
       THEN Value(numbers[1].value * 60 + numbers[2].value)
       ELSE IF Len(time_parts) = 3 /\ numeric
       THEN Value(numbers[1].value * 3600 + numbers[2].value * 60
                  + numbers[3].value)
       ELSE ValueError

\* str(n) of an int that is not negative
RECURSIVE str(_)
str(n) ==
    IF n < 10 THEN <<Ascii[17 + n]>>
    ELSE Append(str(n \div 10), Ascii[17 + (n % 10)])

\* the format specification :02d on an int that is not negative
ZeroPadded(n) == IF n < 10 THEN <<"0">> \o str(n) ELSE str(n)

\* format_duration (utils.py lines 73-81), for seconds >= 0
format_duration(seconds) ==
    IF seconds < 60 THEN str(seconds) \o <<"s">>
    ELSE LET minutes == seconds \div 60
             secs == seconds % 60
         IN IF minutes < 60 THEN str(minutes) \o <<":">> \o ZeroPadded(secs)
            ELSE LET hours == minutes \div 60
                     mins == minutes % 60
                 IN str(hours) \o <<":">> \o ZeroPadded(mins) \o <<":">>
                        \o ZeroPadded(secs)

\* the character class of sanitize_filename's invalid_chars
invalid_chars == {"<", ">", ":", "\"", "/", "\\", "|", "?", "*"}

\* what sanitize_filename returns when nothing is left
unnamed == <<"u", "n", "n", "a", "m", "e", "d">>

\* the default of sanitize_filename's max_length
max_length_default == 200

\* re.sub(r"[\s_]+", "_", s): every run of blanks and underscores becomes
\* one underscore
RECURSIVE CollapseBlanks(_)
CollapseBlanks(s) ==
    IF s = <<>> THEN <<>>
    ELSE IF Head(s) \in Whitespace \cup {"_"}
    THEN <<"_">> \o CollapseBlanks(lstrip(s, Whitespace \cup {"_"}))
    ELSE <<Head(s)>> \o CollapseBlanks(Tail(s))

\* sanitize_filename (utils.py lines 95-113)
sanitize_filename(filename, max_length) ==
    LET replaced == [i \in DOMAIN filename |->
                        IF filename[i] \in invalid_chars THEN "_"
                        ELSE filename[i]]
        printable == SelectSeq(replaced, LAMBDA c : ord(c) >= 32)
        collapsed == CollapseBlanks(printable)
        stripped == strip(collapsed, {".", " "})
        sanitized ==
            IF Len(stripped) > max_length
            THEN rstrip(SubSeq(stripped, 1, max_length), {".", " "})
            ELSE stripped
    IN IF sanitized = <<>> THEN unnamed ELSE sanitized

\* the parts pathlib makes of a relative path string: the pieces between
\* the slashes, without the empty ones and the "." ones
PathParts(s) ==
    SelectSeq(split(s, "/"), LAMBDA part : part # <<>> /\ part # <<".">>)

\* the parts joined by slashes again
RECURSIVE Join(_)
Join(parts) ==
    IF parts = <<>> THEN <<>>
    ELSE IF Len(parts) = 1 THEN Head(parts)
    ELSE Head(parts) \o <<"/">> \o Join(Tail(parts))

\* downloader.py lines 117-124: filepath, relative to output_dir:
\* sanitize_filename(uploader) / f"{safe_title}_{video_id}.mp4"
filepath(uploader, title, video_id) ==
    Join(PathParts(sanitize_filename(uploader, max_length_default))
         \o PathParts(sanitize_filename(title, max_length_default)
                          \o <<"_">> \o video_id \o <<".", "m", "p", "4">>))

\* ---------------------------------------------------------------- the inputs
\* every string over alphabet of length at most n
RECURSIVE Strings(_, _)
Strings(alphabet, n) ==
    IF n = 0 THEN {<<>>}
    ELSE LET shorter == Strings(alphabet, n - 1)
         IN shorter \cup {Append(s, c) : s \in shorter, c \in alphabet}

\* the duration strings of the documentation (utils.py lines 13-16) and of
\* its description of invalid input
DurationExamples ==
    { <<"9", "0">>, <<"5", ":", "3", "0">>,
      <<"1", ":", "2", "3", ":", "4", "5">>,
      <<"5", "m", "3", "0", "s">>, <<"1", "h", "3", "0", "m">>,
      <<"a", "b", "c">>, <<"1", "2", ":", "a", "b">>, <<"1", "d", "2", "h">>,
      <<"-", "1", ":", "3", "0">> }

\* the characters the short duration strings are made of
DurationAlphabet == {"0", "1", ":", "h", "m", "s", "-", " ", "a"}

\* the characters the short file names are made of: a letter, the
\* characters sanitize_filename treats specially, a control character below
\* U+0020 and one above it
FilenameAlphabet == {"a", ".", " ", "_", "/", "\t", DEL}

\* the file names of the documentation
FilenameExamples ==
    { <<".", ".", ".", ".">>,
      <<"S", "o", "m", "e", ":", "/", "T", "i", "t", "l", "e", "*", "?">> }

\* the characters the uploader names and titles of the records are made
\* of: a letter and the two characters paths are made of
PathAlphabet == {"a", ".", "/"}

\* the video ids of the records: the digits of a /videos/<id> link, and
\* what str(video_data.get("id", "")) makes of the "id" of a story video
\* (search.py line 229): nothing, or any string the site sends
VideoIdExamples ==
    { <<"1", "0", "1">>, <<>>, <<".", ".">>, <<"/">>, <<"a", "/", "b">>,
      <<"/", ".", ".", "/", ".", ".", "/", ".", ".", "/", "x">> }

\* what the utility functions are called with; the last kind is a record
\* handed to download_video (text is its title)
Inputs ==
    [ kind : {"duration_str"},
      text : Strings(DurationAlphabet, MaxLen) \cup DurationExamples,
      seconds : {0}, max_length : {0}, uploader : {<<>>}, video_id : {<<>>} ]
    \cup [ kind : {"seconds"}, text : {<<>>}, seconds : 0..MaxSeconds,
           max_length : {0}, uploader : {<<>>}, video_id : {<<>>} ]
    \cup [ kind : {"filename"},
           text : Strings(FilenameAlphabet, MaxLen) \cup FilenameExamples,
           seconds : {0}, max_length : {MaxLen - 1, max_length_default},
           uploader : {<<>>}, video_id : {<<>>} ]
    \cup [ kind : {"video_info"},
           text : Strings(PathAlphabet, MaxLen),
           seconds : {0}, max_length : {0},
           uploader : Strings(PathAlphabet, MaxLen),
           video_id : VideoIdExamples ]

\* ---------------------------------------------------------------- the calls
\* parse_duration(duration_str), on a given string or on the string
\* format_duration has just returned
CallParseDuration ==
    /\ \/ applied = <<>> /\ input.kind = "duration_str"
          /\ output' = parse_duration(input.text)
       \/ applied = <<"format_duration">>
          /\ output' = parse_duration(output.text)
    /\ applied' = Append(applied, "parse_duration")
    /\ UNCHANGED input
    /\ UNCHANGED <<vars, client_vars, listing_vars>>

\* format_duration(seconds)
CallFormatDuration ==
    /\ applied = <<>>
    /\ input.kind = "seconds"
    /\ applied' = <<"format_duration">>
    /\ output' = Text(format_duration(input.seconds))
    /\ UNCHANGED input
    /\ UNCHANGED <<vars, client_vars, listing_vars>>

\* sanitize_filename(filename, max_length)
CallSanitizeFilename ==
    /\ applied = <<>>
    /\ input.kind = "filename"
    /\ applied' = <<"sanitize_filename">>
    /\ output' = Text(sanitize_filename(input.text, input.max_length))
    /\ UNCHANGED input
    /\ UNCHANGED <<vars, client_vars, listing_vars>>

\* download_video up to its target path (downloader.py lines 117-124)
ComputeFilepath ==
    /\ applied = <<>>
    /\ input.kind = "video_info"
    /\ applied' = <<"filepath">>
    /\ output' = Text(filepath(input.uploader, input.text, input.video_id))
    /\ UNCHANGED input
    /\ UNCHANGED <<vars, client_vars, listing_vars>>

UtilsNext ==
    \/ CallParseDuration
    \/ CallFormatDuration
    \/ CallSanitizeFilename
    \/ ComputeFilepath

\* the utility functions applied to every input, next to an idle
\* downloader, client and listing
UtilsInit ==
    /\ DownloaderStart
    /\ history_file = MissingFile
    /\ ClientStart
    /\ ListingStart
    /\ input \in Inputs
    /\ applied = <<>>
    /\ output = NoOutput

UtilsSpec == UtilsInit /\ [][UtilsNext]_all_vars

\* ================================== src/src/search.py and src/src/profile.py
\* The duration strings a listing shows: none, plain seconds, a signed
\* MM:SS and one that parse_duration rejects.
ListedDurations ==
    { <<>>, <<"9", "0">>, <<"-", "1", ":", "3", "0">>, <<"a", "b", "c">> }

\* One raw item of a listing page, as far as the parsers read it: the video
\* id (the "id" of a story video, the digits of a card's /videos/<id> link;
\* "absent" when the page has none) and the duration string (durationString,
\* or the text of the card's duration element).
RawItems ==
    {[id |-> "101", duration_str |-> d] : d \in ListedDurations}
    \cup {[id |-> "absent", duration_str |-> <<"9", "0">>]}

\* the "videos" array of one story: empty, or one video
Stories == {<<>>} \cup {<<v>> : v \in RawItems}

\* What client.get(search_url) ends in: a failing request, a page without
\* the VideoSearchStories component, one without data-props, one whose
\* data-props is not JSON, one whose JSON is not the object the code
\* expects (a .get on it raises), or one with a stories array of up to two
\* stories.
SearchPages ==
    [ kind : {"failed", "no_component", "no_props", "bad_json", "malformed"},
      stories : {<<>>} ]
    \cup [kind : {"stories"}, stories : Strings(Stories, 2)]

\* What client.get(videos_url) ends in: a failing request, or a page with
\* up to two video elements and with or without a rel="next" link.
ProfilePages ==
    [kind : {"failed"}, elements : {<<>>}, next : {FALSE}]
    \cup [ kind : {"elements"}, elements : Strings(RawItems, 2),
           next : BOOLEAN ]

\* the min_duration arguments: no filter, one minute
MinDurations == {0, 60}

\* the limit arguments: None, a negative number, 0, 1 and 2
Limits == {None} \cup {[given |-> TRUE, n |-> n] : n \in (0 - 1)..2}

\* the profile_identifier arguments: a user id, two profile URLs, a
\* nickname, a URL without a user id
Identifiers ==
    { <<"4", "2">>,
      <<"/", "u", "s", "e", "r", "s", "/", "4", "2">>,
      <<"x", "/", "u", "s", "e", "r", "s", "/", "7", "/", "v">>,
      <<"b", "o", "b">>,
      <<"x", "/", "u", "s", "e", "r", "s", "/", "b", "o", "b">> }

\* what the nickname search ends in: a failing request, a page without a
\* matching user link, a page with one
LookupAnswers == {"failed", "no_link", "link"}

\* the truth value of a limit: None and 0 are false
Truthy(limit) == limit.given /\ limit.n # 0

\* s[:k]
Slice(s, k) ==
    IF k >= 0 THEN SubSeq(s, 1, IF k < Len(s) THEN k ELSE Len(s))
    ELSE SubSeq(s, 1, IF Len(s) + k > 0 THEN Len(s) + k ELSE 0)

\* the duration of a listed video (search.py lines 243-249, 111-124):
\* 0 unless parse_duration returns a number
ListedDuration(duration_str) ==
    LET parsed == parse_duration(duration_str)
    IN IF duration_str = <<>> \/ parsed.raised THEN 0 ELSE parsed.value

\* the VideoInfo built from one story video (search.py lines 230-267), as
\* far as the paginator and its callers' claims read it
StoryVideo(video_data) ==
    [ video_id |-> IF video_data.id = "absent" THEN "" ELSE video_data.id,
      duration |-> ListedDuration(video_data.duration_str) ]

\* parse_video_element (search.py lines 81-150): no record without a
\* /videos/<id> link, else the record; as a list of zero or one records
parse_video_element(element) ==
    IF element.id = "absent" THEN <<>>
    ELSE <<[ video_id |-> element.id,
             duration |-> ListedDuration(element.duration_str) ]>>

\* the story videos of a page, in order
RECURSIVE StoryVideos(_)
StoryVideos(stories) ==
    IF stories = <<>> THEN <<>>
    ELSE [i \in DOMAIN Head(stories) |-> StoryVideo(Head(stories)[i])]
             \o StoryVideos(Tail(stories))

\* the records the elements of a page parse to, in order
RECURSIVE ElementVideos(_)
ElementVideos(elements) ==
    IF elements = <<>> THEN <<>>
    ELSE parse_video_element(Head(elements)) \o ElementVideos(Tail(elements))

\* The body of the loop over a page's videos (search.py lines 269-279,
\* profile.py lines 135-145): the duration filter, then the limit, with
\* total the videos of the pages before.  done says the function returned
\* inside the loop, left how many records the loop had not come to.
RECURSIVE PageLoop(_, _, _, _, _)
PageLoop(total, page_videos, records, min_duration, limit) ==
    IF records = <<>>
    THEN [done |-> FALSE, videos |-> total, page_videos |-> page_videos,
          left |-> 0]
    ELSE IF min_duration > 0 /\ Head(records).duration < min_duration
    THEN PageLoop(total, page_videos, Tail(records), min_duration, limit)
    ELSE LET kept == Append(page_videos, Head(records))
         IN IF Truthy(limit) /\ Len(total) + Len(kept) >= limit.n
            THEN [done |-> TRUE,
                  videos |-> total \o Slice(kept, limit.n - Len(total)),
                  page_videos |-> kept, left |-> Len(records) - 1]
            ELSE PageLoop(total, kept, Tail(records), min_duration, limit)

\* a caller that may list without having logged in
RefusedNever(c) == FALSE

\* `if not client.authenticated: raise` (search.py 176, profile.py 91)
Refused(c) == ~c.authenticated

\* a search that goes on only after a page that added videos
SearchContinuesIfKept(stories, page_videos) == page_videos # <<>>

\* `if not stories: break` at the end of search_videos' loop body
\* (search.py lines 295-299): the search goes on to the next page
SearchContinues(stories, page_videos) == stories # <<>>

\* the seven characters of "/users/"
UsersPath == <<"/", "u", "s", "e", "r", "s", "/">>

\* extract_user_id (profile.py lines 29-38); <<>> for None
extract_user_id(profile_identifier) ==
    LET s == profile_identifier
        hits == {i \in DOMAIN s :
                    /\ i + 7 <= Len(s)
                    /\ SubSeq(s, i, i + 6) = UsersPath
                    /\ s[i + 7] \in Digits}
        first == CHOOSE i \in hits : \A j \in hits : i <= j
        rest == SubSeq(s, first + 7, Len(s))
    IN IF isdigit(s) THEN s
       ELSE IF hits # {} THEN SubSeq(rest, 1, LeadingDigits(rest))
       ELSE <<>>

\* a nickname search that answers with user 0 when it finds nobody
get_user_id_from_nicknameDefault(answer) ==
    IF answer = "link" THEN <<"4", "2">> ELSE <<"0">>

\* get_user_id_from_nickname (profile.py lines 52-67); <<>> for None
get_user_id_from_nickname(answer) ==
    IF answer = "link" THEN <<"4", "2">> ELSE <<>>

\* the call has ended by returning videos
ListingReturned(result) ==
    [listing EXCEPT !.pc = "returned", !.videos = result]

\* a handler that swallows the exception: the call returns what it has
ListingRaisedSwallowed(error) == [listing EXCEPT !.pc = "returned"]

\* the call has ended by raising error
ListingRaised(error) ==
    [listing EXCEPT !.pc = "raised", !.videos = <<>>, !.error = error]

\* the record of one more listing page: its records, what the loop did
\* with them, and why the call ended on it (if it did)
PageServed(raw, next, records, pass, cause) ==
    [served EXCEPT !.fetches = @ + 1,
                   !.numbers = Append(@, listing.page),
                   !.raw = raw,
                   !.next = next,
                   !.kept = Len(pass.page_videos),
                   !.cause = cause,
                   !.on_site = @ \o records,
                   !.unparsed = pass.left]

\* search_videos(client, query, min_duration, limit) up to its loop
CallSearchVideos(min_duration, limit) ==
    /\ listing.pc = "idle"
    /\ IF Refused(client)
       THEN /\ listing' = [ListingRaised("SearchError") EXCEPT
                              !.fn = "search_videos",
                              !.min_duration = min_duration,
                              !.limit = limit]
            /\ served' = [served EXCEPT !.cause = "unauthenticated"]
       ELSE /\ listing' = [listing EXCEPT !.fn = "search_videos",
                                          !.pc = "fetch",
                                          !.min_duration = min_duration,
                                          !.limit = limit,
                                          !.page = 1]
            /\ UNCHANGED served
    /\ UNCHANGED client
    /\ UNCHANGED <<vars, client_vars, utils_vars>>

\* a page handler whose only except clause is the outer one: a
\* JSONDecodeError ends the call with SearchError like any other exception
SearchPageHandledDecodeFatal(page, records, pass) ==
    LET raw == page.stories # <<>>
    IN IF page.kind \in {"failed", "malformed", "bad_json"}
       THEN /\ listing' = ListingRaised("SearchError")
            /\ served' = PageServed(raw, FALSE, records, pass,
                                    IF page.kind = "failed"
                                    THEN "request_failed"
                                    ELSE page.kind)
       ELSE IF page.kind \in {"no_component", "no_props"}
       THEN /\ listing' = ListingReturned(listing.videos)
            /\ served' = PageServed(raw, FALSE, records, pass, page.kind)
       ELSE IF page.stories = <<>>
       THEN /\ listing' = ListingReturned(listing.videos)
            /\ served' = PageServed(raw, FALSE, records, pass, "no_items")
       ELSE IF pass.done
       THEN /\ listing' = ListingReturned(pass.videos)
            /\ served' = PageServed(raw, FALSE, records, pass, "limit")
       ELSE IF SearchContinues(page.stories, pass.page_videos)
       THEN /\ listing' = [listing EXCEPT
                              !.videos = @ \o pass.page_videos,
                              !.page = @ + 1]
            /\ served' = PageServed(raw, FALSE, records, pass, "none")
       ELSE /\ listing' = ListingReturned(listing.videos \o pass.page_videos)
            /\ served' = PageServed(raw, FALSE, records, pass, "no_items")

\* What search_videos does with one page (search.py lines 196-299), given
\* the records of its story videos and what the loop over them did.
SearchPageHandled(page, records, pass) ==
    LET raw == page.stories # <<>>
    IN IF page.kind \in {"failed", "malformed"}
       THEN /\ listing' = ListingRaised("SearchError")
            /\ served' = PageServed(raw, FALSE, records, pass,
                                    IF page.kind = "failed"
                                    THEN "request_failed"
                                    ELSE "malformed")
       ELSE IF page.kind \in {"no_component", "no_props", "bad_json"}
       THEN /\ listing' = ListingReturned(listing.videos)
            /\ served' = PageServed(raw, FALSE, records, pass, page.kind)
       ELSE IF page.stories = <<>>
       THEN /\ listing' = ListingReturned(listing.videos)
            /\ served' = PageServed(raw, FALSE, records, pass, "no_items")
       ELSE IF pass.done
       THEN /\ listing' = ListingReturned(pass.videos)
            /\ served' = PageServed(raw, FALSE, records, pass, "limit")
       ELSE IF SearchContinues(page.stories, pass.page_videos)
       THEN /\ listing' = [listing EXCEPT
                              !.videos = @ \o pass.page_videos,
                              !.page = @ + 1]
            /\ served' = PageServed(raw, FALSE, records, pass, "none")
       ELSE /\ listing' = ListingReturned(listing.videos \o pass.page_videos)
            /\ served' = PageServed(raw, FALSE, records, pass, "no_items")

\* one pass of search_videos' loop (search.py lines 188-299)
SearchPage ==
    /\ listing.fn = "search_videos"
    /\ listing.pc = "fetch"
    /\ served.fetches < MaxPages
    /\ \E page \in SearchPages :
        SearchPageHandled(page, StoryVideos(page.stories),
                          PageLoop(listing.videos, <<>>,
                                   StoryVideos(page.stories),
                                   listing.min_duration, listing.limit))
    /\ UNCHANGED client
    /\ UNCHANGED <<vars, client_vars, utils_vars>>

\* get_profile_videos(client, profile_identifier, min_duration, limit) up
\* to the nickname search or, with a user id in the identifier, to its loop
CallGetProfileVideos(profile_identifier, min_duration, limit) ==
    /\ listing.pc = "idle"
    /\ IF Refused(client)
       THEN /\ listing' = [ListingRaised("ProfileError") EXCEPT
                              !.fn = "get_profile_videos",
                              !.profile_identifier = profile_identifier,
                              !.min_duration = min_duration,
                              !.limit = limit]
            /\ served' = [served EXCEPT !.cause = "unauthenticated"]
       ELSE /\ listing' = [listing EXCEPT
                              !.fn = "get_profile_videos",
                              !.profile_identifier = profile_identifier,
                              !.pc = IF extract_user_id(profile_identifier)
                                        = <<>>
                                     THEN "lookup" ELSE "fetch",
                              !.min_duration = min_duration,
                              !.limit = limit,
                              !.page = 1]
            /\ UNCHANGED served
    /\ UNCHANGED client
    /\ UNCHANGED <<vars, client_vars, utils_vars>>

\* get_user_id_from_nickname and the check of its result (profile.py
\* lines 100-105)
ProfileLookup ==
    /\ listing.pc = "lookup"
    /\ \E answer \in LookupAnswers :
        LET user_id == get_user_id_from_nickname(answer)
        IN IF user_id = <<>>
           THEN /\ listing' = ListingRaised("ProfileError")
                /\ served' = [served EXCEPT !.lookups = @ + 1,
                                            !.lookup = answer,
                                            !.cause = "no_user"]
           ELSE /\ listing' = [listing EXCEPT !.pc = "fetch"]
                /\ served' = [served EXCEPT !.lookups = @ + 1,
                                            !.lookup = answer]
    /\ UNCHANGED client
    /\ UNCHANGED <<vars, client_vars, utils_vars>>

\* What get_profile_videos does with one page (profile.py lines 118-159),
\* given the records of its video elements and what the loop over them did.
ProfilePageHandled(page, records, pass) ==
    LET raw == page.elements # <<>>
    IN IF page.kind = "failed"
       THEN /\ listing' = ListingRaised("ProfileError")
            /\ served' = PageServed(raw, page.next, records, pass,
                                    "request_failed")
       ELSE IF page.elements = <<>>
       THEN /\ listing' = ListingReturned(listing.videos)
            /\ served' = PageServed(raw, page.next, records, pass, "no_items")
       ELSE IF pass.done
       THEN /\ listing' = ListingReturned(pass.videos)
            /\ served' = PageServed(raw, page.next, records, pass, "limit")
       ELSE IF pass.page_videos = <<>>
       THEN /\ listing' = ListingReturned(listing.videos)
            /\ served' = PageServed(raw, page.next, records, pass,
                                    "nothing_kept")
       ELSE IF ~page.next
       THEN /\ listing' = ListingReturned(listing.videos \o pass.page_videos)
            /\ served' = PageServed(raw, page.next, records, pass, "no_next")
       ELSE /\ listing' = [listing EXCEPT
                              !.videos = @ \o pass.page_videos,
                              !.page = @ + 1]
            /\ served' = PageServed(raw, page.next, records, pass, "none")

\* one pass of get_profile_videos' loop (profile.py lines 112-159)
ProfilePage ==
    /\ listing.fn = "get_profile_videos"
    /\ listing.pc = "fetch"
    /\ served.fetches < MaxPages
    /\ \E page \in ProfilePages :
        ProfilePageHandled(page, ElementVideos(page.elements),
                           PageLoop(listing.videos, <<>>,
                                    ElementVideos(page.elements),
                                    listing.min_duration, listing.limit))
    /\ UNCHANGED client
    /\ UNCHANGED <<vars, client_vars, utils_vars>>

ListingNext ==
    \/ \E m \in MinDurations, l \in Limits : CallSearchVideos(m, l)
    \/ SearchPage
    \/ \E i \in Identifiers, m \in MinDurations, l \in Limits :
           CallGetProfileVideos(i, m, l)
    \/ ProfileLookup
    \/ ProfilePage

\* a listing call on a client that has or has not logged in, next to an
\* idle downloader
ListingInit ==
    /\ DownloaderStart
    /\ history_file = MissingFile
    /\ ClientStart
    /\ client \in [authenticated : BOOLEAN]
    /\ listing = NoListing
    /\ served = NoServed
    /\ UtilsStart

ListingSpec == ListingInit /\ [][ListingNext]_all_vars

\* ----------------------------------------------------------- properties
Returned == pc = "dv_ret"

TargetExists == FilePath(ById(video)) \in files

NoNetwork == Fetches(call) = 0 /\ call.page = 0

OnDisk == LoadHistory(history_file).value

\* C1: every id in the ledger that was not in the ledger loaded at
\* construction belongs to a record whose stream download or remux ran to
\* completion in some call; no id is added for a record whose attempts all
\* failed.
C1_AddedIdsWereDownloaded == (downloaded_ids \ initial_ids) \subseteq completed

C3_BatchNeverAborted ==
    /\ batch.status # "aborted"
    /\ batch.status = "done" =>
        /\ Len(videos) = stats.total
        /\ batch.processed = [i \in 1..Len(videos) |-> videos[i].video_id]
        /\ stats.total = stats.success + stats.failed + stats.skipped
        /\ stats.failed = batch.nfailed

\* the case of C4: skip_existing, and the id was in the ledger or the target
\* file existed when download_video was entered
C4_Case == Returned /\ skip_existing /\ (video \in call.ledger0 \/ call.file0)

C5_SkippedCountedAsSkipped ==
    batch.status \in {"running", "done"} =>
        /\ stats.skipped = batch.nskipped
        /\ stats.success = batch.nsuccess

\* C6: when the process is interrupted, also in the middle of
\* _save_download_history, the ledger file holds a complete id set, the
\* previous one or the new one: a reload finds every id of the last
\* completed write.
C6_InterruptKeepsLedgerFile == pc = "dead" => OnDisk = committed

ExpectedShape(f) == f.kind = "object" /\ f.field = "list"

\* C8: constructing a VideoDownloader on a ledger file that is missing, not
\* valid JSON, or JSON of an unexpected shape does not raise and gives the
\* empty ledger.
C8_BadLedgerLoadsEmpty ==
    fresh => /\ pc # "raised"
             /\ ~ExpectedShape(history_file) => downloaded_ids = {}

\* the case of C9: an exception during the direct download was caught
C9_Case == Returned /\ call.exc = "direct"

\* C9 as claimed: then download_video returns Failed, the target path does
\* not exist and the ledger is unchanged.
C9_FailedDirectLeavesNothing ==
    C9_Case => /\ call.outcome = "Failed"
               /\ ~TargetExists
               /\ downloaded_ids = call.ledger0

\* C9 as amended: then download_video returns Failed, the ledger is
\* unchanged, and the target path does not exist unless the unlink of the
\* cleanup itself failed.
C9_FailedDirectCleansUpBestEffort ==
    C9_Case => /\ call.outcome = "Failed"
               /\ downloaded_ids = call.ledger0
               /\ call.unlink # "failed" => ~TargetExists

C9_Witness == C9_Case /\ call.unlink = "ok" /\ ~TargetExists

\* C10: for a manifest (.m3u8) URL download_video runs the remux tool and
\* makes no direct download; a non-zero exit code or a timeout makes it
\* return Failed with the ledger as it was.
C10_ManifestIsRemuxed ==
    (Returned /\ download_url.present /\ download_url.hls) =>
        /\ call.tool # "none"
        /\ call.direct = 0
        /\ call.tool \in {"nonzero", "timeout"} =>
              (call.outcome = "Failed" /\ downloaded_ids = call.ledger0)

C10_Witness ==
    /\ Returned /\ download_url.hls /\ call.tool = "timeout"
    /\ call.outcome = "Failed" /\ TargetExists

\* C11: download_video takes the record's own stream URL when it has one and
\* fetches the video page only when it has none; when neither gives a URL it
\* returns Failed, fetches no stream, leaves the target file as it was and
\* the ledger unchanged.
C11_RecordUrlPreferred ==
    (Returned /\ call.outcome # "Skipped") =>
        LET own == ById(video).download_url IN
        /\ own.present => (call.page = 0 /\ download_url = AbsoluteUrl(own))
        /\ ~own.present => call.page = 1
        /\ ~download_url.present =>
              /\ call.outcome = "Failed"
              /\ Fetches(call) = 0
              /\ downloaded_ids = call.ledger0
              /\ TargetExists <=> call.file0

C11_Witness ==
    /\ Returned /\ ~ById(video).download_url.present /\ call.page = 1
    /\ ~download_url.present /\ call.outcome = "Failed"

\* --------------------------------------- properties of the client and auth
\* the running call went through get, post or download_file
LimitedCall == request.method \in {"get", "post", "download_file"}

\* authenticate or verify_authentication has returned or raised
Finished(fn) == cpc = "auth_done" /\ auth.fn = fn

\* the login POST got an answer that is not the success of line 114
LoginRefused ==
    /\ auth.posted /\ auth.post.status # 0
    /\ ~(auth.post.result = "response" /\ auth.post.status = 200
         /\ auth.post.home)

\* C12: in a get, post or download_file call no request goes out before the
\* timestamp recorded by the previous call plus rate_limit_delay, and once
\* past _rate_limit the call has recorded a new timestamp, which is not
\* before that time either and not after the clock.
C12_RequestsWaitOutDelay ==
    LimitedCall =>
        /\ ~request.early
        /\ request.sends > 0 => request.limited
        /\ request.limited =>
              /\ last_request_time >= request.stamp0 + rate_limit_delay
              /\ last_request_time <= clock

C12_Witness ==
    /\ cpc = "client_ret" /\ request.method = "post" /\ request.sends > 0
    /\ request.stamp0 > 0
    /\ last_request_time = request.stamp0 + rate_limit_delay

\* C13: every HTTP request sent on the client's session, also the one
\* download_video sends for a direct download, went through the rate
\* limiter: the call waited out the delay and recorded its timestamp.
C13_EveryRequestRateLimited ==
    request.sends > 0 => (request.limited /\ ~request.early)

\* C14 as claimed: a get call sends at most 1 + 3 requests, tries again only
\* after a connection failure or a status of the force list, and ends with
\* a response or an exception.
C14_GetSendsAtMostFour ==
    request.method = "get" =>
        /\ request.sends <= RetryTotal + 1
        /\ request.attempts >= 1 /\ cpc = "transport" =>
              \/ request.cause.kind \in {"connect_error", "read_error"}
              \/ /\ request.cause.kind = "response"
                 /\ request.cause.status \in {429, 500, 502, 503, 504}
        /\ cpc = "client_ret" => request.result \in {"response", "raised"}

\* C14 as amended: a get call makes at most 1 + 3 attempts for each URL of
\* the redirect chain it follows, follows a bounded number of redirects,
\* tries again only after a connection failure or a status of the force
\* list, and ends with a response or an exception.
C14_GetRetriesBoundedPerHop ==
    request.method = "get" =>
        /\ request.attempts <= RetryTotal + 1
        /\ request.hop_sends <= request.attempts
        /\ request.hops <= MaxRedirects
        /\ request.sends <= (RetryTotal + 1) * (request.hops + 1)
        /\ request.attempts >= 1 /\ cpc = "transport" =>
              \/ request.cause.kind \in {"connect_error", "read_error"}
              \/ /\ request.cause.kind = "response"
                 /\ request.cause.status \in {429, 500, 502, 503, 504}
        /\ cpc = "client_ret" => request.result \in {"response", "raised"}

C14_Witness ==
    /\ cpc = "client_ret" /\ request.method = "get" /\ request.hops = 1
    /\ request.sends = RetryTotal + 2 /\ request.result = "response"

\* C15 as claimed: a post call sends at most one HTTP request.
C15_PostSendsOnce == request.method = "post" => request.sends <= 1

\* C15 as amended: a post call never sends its POST again: on a hop whose
\* request is a POST nothing is tried again once the request went out (only
\* a connection that could not be made is tried again), so without a
\* redirect the call sends at most one request.
C15_PostNeverResent ==
    request.method = "post" =>
        /\ request.hops = 0 => request.sends <= 1
        /\ request.hop_method = "POST" =>
              /\ request.hop_sends <= 1
              /\ cpc = "transport" =>
                    /\ request.hop_sends = 0
                    /\ request.cause.kind \in {"none", "connect_error"}

C15_Witness ==
    /\ cpc = "client_ret" /\ request.method = "post" /\ request.hops = 1
    /\ request.sends = 2 /\ request.result = "response"
    /\ request.status = 200 /\ request.home

\* C16: when the login page it fetched has no extractable token,
\* authenticate raises AuthenticationError, has not called client.post, and
\* has set neither client.authenticated nor client.csrf_token.
C16_NoTokenNoPost ==
    (Finished("authenticate") /\ auth.fetched /\ auth.page = NoPage) =>
        /\ auth.outcome = "AuthenticationError"
        /\ ~auth.posted /\ auth.calls = 1
        /\ authenticated = auth.flag0
        /\ csrf_token = auth.token0

C16_Witness ==
    /\ Finished("authenticate") /\ auth.fetched /\ auth.page = NoPage
    /\ auth.message = "no_token"

\* C17 as claimed: authenticate returns True, with the client marked
\* authenticated, exactly when the login POST gave a 2xx response whose
\* final URL contains /home; otherwise it raises AuthenticationError and
\* leaves the flag as it was.
C17_TrueIffAny2xxOnHome ==
    Finished("authenticate") =>
        /\ auth.outcome = "True" <=>
              /\ auth.posted /\ auth.post.result = "response"
              /\ auth.post.status \in 200..299 /\ auth.post.home
        /\ auth.outcome = "True" => authenticated
        /\ auth.outcome # "True" =>
              (auth.outcome = "AuthenticationError"
               /\ authenticated = auth.flag0)

\* C17 as amended: ... exactly when the login POST gave a response with
\* status 200 whose final URL contains /home.
C17_TrueIff200OnHome ==
    Finished("authenticate") =>
        /\ auth.outcome = "True" <=>
              /\ auth.posted /\ auth.post.result = "response"
              /\ auth.post.status = 200 /\ auth.post.home
        /\ auth.outcome = "True" => authenticated
        /\ auth.outcome # "True" =>
              (auth.outcome = "AuthenticationError"
               /\ authenticated = auth.flag0)

C17_Witness ==
    /\ Finished("authenticate") /\ auth.outcome = "True"
    /\ authenticated /\ ~auth.flag0

\* C18: whenever the login POST got an answer that does not meet the
\* success condition, a non-2xx answer included, authenticate raises the
\* AuthenticationError with the text of the body's error/alert element, or
\* the generic one when the body has none.
C18_FailedLoginScansBody ==
    (Finished("authenticate") /\ LoginRefused) =>
        /\ auth.outcome = "AuthenticationError"
        /\ auth.message = IF auth.post.elem # "none" THEN "element"
                          ELSE "generic"

\* no operation but authenticate changes authenticated or csrf_token, and a
\* client that was not used has neither
OnlyAuthenticateSets ==
    /\ auth.fn \in {"client", "verify_authentication"} =>
          (authenticated = auth.flag0 /\ csrf_token = auth.token0)
    /\ nops = 0 => (~authenticated /\ csrf_token = "none")

C20_VerifyNeverRaises ==
    Finished("verify_authentication") =>
        /\ auth.outcome \in {"True", "False"}
        /\ ~auth.flag0 => (auth.outcome = "False" /\ auth.calls = 0)
        /\ auth.outcome = "True" <=>
              (auth.flag0 /\ auth.fetched /\ auth.logout)

C20_Witness ==
    /\ Finished("verify_authentication") /\ auth.outcome = "True"
    /\ auth.calls = 1

\* ------------------------------------------- properties of the listing calls
\* the running call is search_videos / get_profile_videos
Searching == listing.fn = "search_videos"

Profiling == listing.fn = "get_profile_videos"

\* the call has come to its end, by return or by exception
ListingEnded == listing.pc \in {"returned", "raised"}

\* C21: search_videos and get_profile_videos on a client whose
\* authenticated flag is false raise SearchError / ProfileError without
\* having sent a request (no nickname search, no listing page), and the
\* call ends by that exception, not by returning a list.
C21_UnauthenticatedRaisesUnsent ==
    (listing.fn # "none" /\ ~client.authenticated) =>
        /\ listing.pc = "raised"
        /\ listing.error = IF Searching THEN "SearchError" ELSE "ProfileError"
        /\ served.fetches = 0
        /\ served.lookups = 0

\* get_profile_videos has refused such a client
C21_Witness ==
    /\ ~client.authenticated
    /\ Profiling
    /\ listing.pc = "raised"
    /\ listing.error = "ProfileError"
    /\ served.fetches + served.lookups = 0

\* the records of a list that last at least m seconds
LongEnough(records, m) == SelectSeq(records, LAMBDA r : r.duration >= m)

\* the smaller of two numbers
Least(a, b) == IF a < b THEN a ELSE b

\* the records of a list that a duration filter of m seconds lets pass
\* (with m = 0 there is no filter)
Filtered(records, m) ==
    SelectSeq(records, LAMBDA r : m = 0 \/ r.duration >= m)

\* the records on the pages served, after the duration filter
Available == Filtered(served.on_site, listing.min_duration)

\* C22: a paginator called with limit N >= 0 (N = 0 included) returns
\* exactly min(N, number of records the site holds after the duration
\* filter) records, and when it returns N > 0 records it does so on the
\* page where the N-th was accepted.
C22_LengthIsLeastOfLimitAndAvailable ==
    (listing.pc = "returned" /\ listing.limit.given /\ listing.limit.n >= 0) =>
        /\ Len(listing.videos) = Least(listing.limit.n, Len(Available))
        /\ (listing.limit.n > 0 /\ Len(Available) >= listing.limit.n) =>
               served.cause = "limit"

\* C23: in both paginators a page that has raw items but yields no record
\* after the duration filter does not stop pagination: the call goes on to
\* request the next page, unless (DOM strategy) the page has no next-page
\* link.
C23_FilteredPageContinues ==
    ( /\ served.fetches > 0
      /\ served.raw
      /\ served.kept = 0
      /\ Profiling => served.next ) =>
        /\ listing.pc = "fetch"
        /\ listing.page = served.fetches + 1

\* what the statement of search_videos' termination lists: the limit, an
\* empty stories array, a missing component or data attribute, undecodable
\* JSON, a failing request
ListedCauses ==
    {"limit", "no_items", "no_component", "no_props", "bad_json",
     "request_failed"}

\* search_videos on an authenticated client has ended exactly for one of
\* the given causes, each cause being what it says; with a limit N > 0 it
\* has ended once N records passed the filter; and as long as every page
\* had stories and none of their records passed the filter it is still
\* asking, for page 1, 2, 3, ... in turn
SearchEndsExactlyFor(causes) ==
    (Searching /\ client.authenticated) =>
        /\ ListingEnded <=> served.cause \in causes
        /\ served.cause = "no_items" => ~served.raw
        /\ served.cause = "limit" =>
               /\ listing.pc = "returned"
               /\ Truthy(listing.limit)
               /\ served.kept > 0
        /\ ( /\ listing.limit.given
             /\ listing.limit.n > 0
             /\ Len(Available) >= listing.limit.n ) => served.cause = "limit"
        /\ \A i \in DOMAIN served.numbers : served.numbers[i] = i
        /\ (served.fetches > 0 /\ served.raw /\ Available = <<>>) =>
               /\ listing.pc = "fetch"
               /\ listing.page = served.fetches + 1

Parsed ==
    SubSeq(served.on_site, 1, Len(served.on_site) - served.unparsed)

\* C25: every record a paginator returns with min_duration = m >= 0 lasts
\* at least m seconds, and the list returned holds every parsed record
\* that lasts at least m seconds.
C25_ReturnedAreTheLongEnough ==
    (listing.pc = "returned" /\ listing.min_duration >= 0) =>
        /\ \A i \in DOMAIN listing.videos :
               listing.videos[i].duration >= listing.min_duration
        /\ listing.videos = LongEnough(Parsed, listing.min_duration)

\* the identifier is neither a number nor holds /users/<id>
NamesNoUser(identifier) ==
    /\ ~isdigit(identifier)
    /\ ~\E i \in DOMAIN identifier :
           /\ i + 7 <= Len(identifier)
           /\ SubSeq(identifier, i, i + 6) = UsersPath
           /\ identifier[i + 7] \in Digits

\* C26: when the profile identifier is neither numeric nor a /users/<id>
\* URL, get_profile_videos searches for the nickname before any listing
\* page, and when that search fails or finds no user it raises
\* ProfileError without having requested a listing page.
C26_UnknownUserRaisesUnfetched ==
    ( /\ Profiling
      /\ client.authenticated
      /\ NamesNoUser(listing.profile_identifier) ) =>
        /\ served.lookup = "none" => listing.pc = "lookup" /\ served.fetches = 0
        /\ served.lookup \in {"failed", "no_link"} =>
               /\ listing.pc = "raised"
               /\ listing.error = "ProfileError"
               /\ served.fetches = 0

\* the search for nickname "bob" has failed and the call has raised
C26_Witness ==
    /\ Profiling
    /\ listing.profile_identifier = <<"b", "o", "b">>
    /\ served.lookup = "failed"
    /\ served.lookups = 1
    /\ listing.pc = "raised"
    /\ listing.error = "ProfileError"
    /\ served.fetches = 0

\* C27: every record the listing parsers produce (from a story video in
\* search_videos, from a video element in parse_video_element) has a
\* duration >= 0 and an id that is not the empty string.
C27_ParsedRecordsWellFormed ==
    \A i \in DOMAIN Parsed :
        /\ Parsed[i].duration >= 0
        /\ Parsed[i].video_id # ""

\* ----------------------------------------- properties of the utility functions
\* parse_duration has been applied to the given string, nothing else
ParsedGiven == input.kind = "duration_str" /\ applied = <<"parse_duration">>

\* plain integer seconds: digits only
PlainSeconds(s) == s # <<>> /\ \A i \in DOMAIN s : s[i] \in Digits

\* MM:SS or H:MM:SS: two or three runs of digits with colons between
ColonForm(s) ==
    LET parts == split(s, ":")
    IN Len(parts) \in {2, 3} /\ \A i \in DOMAIN parts : PlainSeconds(parts[i])

\* s is empty or a number followed by the unit letter
UnitPart(s, unit) ==
    \/ s = <<>>
    \/ /\ Len(s) >= 2
       /\ s[Len(s)] = unit
       /\ PlainSeconds(SubSeq(s, 1, Len(s) - 1))

\* NhNmNs: an hours, a minutes and a seconds part in this order, each
\* optional, at least one present
Shorthand(s) ==
    /\ s # <<>>
    /\ \E i \in 0..Len(s) : \E j \in i..Len(s) :
           /\ UnitPart(SubSeq(s, 1, i), "h")
           /\ UnitPart(SubSeq(s, i + 1, j), "m")
           /\ UnitPart(SubSeq(s, j + 1, Len(s)), "s")

\* C28: parse_duration returns a number exactly for plain integer seconds,
\* H:MM:SS / MM:SS and the shorthand NhNmNs with at least one unit; for
\* every other string, "abc", the empty string, "12:ab" and "1d2h"
\* among them, it raises the format error.
C28_AcceptsExactlyTheThreeFormats ==
    ParsedGiven =>
        (~output.raised <=>
            \/ PlainSeconds(input.text)
            \/ ColonForm(input.text)
            \/ Shorthand(input.text))

\* format_duration has been applied to the given number, and parse_duration
\* to what it returned
RoundTrip == applied = <<"format_duration", "parse_duration">>

\* the string is the decimal spelling of n, with at least width digits
Spells(s, n, width) ==
    /\ PlainSeconds(s)
    /\ Decimal(s) = n
    /\ Len(s) >= width
    /\ (Len(s) > width /\ Len(s) > 1) => s[1] # "0"

\* C29: for every n >= 0, parse_duration(format_duration(n)) = n, where
\* format_duration(n) is "<n>s" below 60, "M:SS" below one hour and
\* "H:MM:SS" from there on; 45 gives "45s", 330 gives "5:30" and 5025
\* gives "1:23:45".
C29_FormatThenParseIsIdentity ==
    /\ RoundTrip => ~output.raised /\ output.value = input.seconds
    /\ applied = <<"format_duration">> =>
        LET n == input.seconds
            parts == split(output.text, ":")
        IN /\ n < 60 =>
                /\ output.text[Len(output.text)] = "s"
                /\ Spells(SubSeq(output.text, 1, Len(output.text) - 1), n, 1)
           /\ (n >= 60 /\ n < 3600) =>
                /\ Len(parts) = 2
                /\ Spells(parts[1], n \div 60, 1)
                /\ Spells(parts[2], n % 60, 2) /\ Len(parts[2]) = 2
           /\ n >= 3600 =>
                /\ Len(parts) = 3
                /\ Spells(parts[1], n \div 3600, 1)
                /\ Spells(parts[2], (n \div 60) % 60, 2) /\ Len(parts[2]) = 2
                /\ Spells(parts[3], n % 60, 2) /\ Len(parts[3]) = 2
           /\ n = 45 => output.text = <<"4", "5", "s">>
           /\ n = 330 => output.text = <<"5", ":", "3", "0">>
           /\ n = 5025 => output.text = <<"1", ":", "2", "3", ":", "4", "5">>

\* 5025 seconds went through "1:23:45" and came back
C29_Witness ==
    /\ RoundTrip
    /\ input.seconds = 5025
    /\ ~output.raised
    /\ output.value = 5025

\* a control character: U+0000-U+001F and U+007F-U+009F
IsControl(c) == ord(c) < 32 \/ (ord(c) >= 127 /\ ord(c) <= 159)

\* C30: for every input string sanitize_filename returns a string that is
\* not empty, holds none of the characters <>:"/\|?* and no control
\* character, neither starts nor ends with a dot or a space, and is
\* "unnamed" when nothing else remains (as for "....").
C30_SanitizedIsSafeName ==
    (input.kind = "filename" /\ applied = <<"sanitize_filename">>) =>
        /\ output.text # <<>>
        /\ \A i \in DOMAIN output.text :
               /\ output.text[i] \notin invalid_chars
               /\ ~IsControl(output.text[i])
        /\ output.text[1] \notin {".", " "}
        /\ output.text[Len(output.text)] \notin {".", " "}
        /\ input.text = <<".", ".", ".", ".">> => output.text = unnamed
        /\ input.text = <<>> => output.text = unnamed

\* C31: when the data-props attribute of a search page is not decodable
\* JSON, search_videos leaves its loop and returns normally: no
\* SearchError, the list returned is what the earlier pages had
\* accumulated (their records that passed the filter, in order, nothing of
\* this page), and the page counter stays on the page just fetched: no
\* further page is asked for.
C31_UndecodableJsonEndsQuietly ==
    (Searching /\ served.cause = "bad_json") =>
        /\ listing.pc = "returned"
        /\ listing.error = "none"
        /\ listing.videos = Available
        /\ served.kept = 0
        /\ ~served.raw
        /\ listing.page = served.fetches
        /\ served.numbers[Len(served.numbers)] = listing.page

\* a second page that does not decode, after a first one that gave records
C31_Witness ==
    /\ Searching
    /\ served.cause = "bad_json"
    /\ served.fetches = 2
    /\ listing.pc = "returned"
    /\ Len(listing.videos) >= 1

\* -------------------------------------- more properties of download_video
\* C32: download_video never removes a file that was at the target path
\* before the call: whatever the call ends in (in particular a failed
\* forced re-download, skip_existing = false, of a record in the ledger),
\* a file that was there when the call began is there when it returns.
C32_ExistingFileSurvives ==
    (pc = "dv_ret" /\ call.file0) => FilePath(ById(video)) \in files

\* -------------------------------------------- more properties of the client
\* C33: client.authenticated is true only if the most recent authenticate
\* call on the client succeeded: when an authenticate call has raised
\* AuthenticationError (no credentials, no token, a rejected login, a
\* transport error) the flag is false, also when an earlier call on the
\* same client had set it.
C33_FlagFollowsLastAuthenticate ==
    (Finished("authenticate") /\ auth.outcome = "AuthenticationError") =>
        ~authenticated

\* ---------------------------------- what escapes the three operations
\* the error type of the running listing call
OwnError == IF Searching THEN "SearchError" ELSE "ProfileError"

\* authenticate ends by returning True or by AuthenticationError, and by
\* the latter whenever its GET or its POST raised or an exception was
\* wrapped by line 134
AuthenticateConverts ==
    Finished("authenticate") =>
        /\ auth.outcome \in {"True", "AuthenticationError"}
        /\ ( \/ auth.calls >= 1 /\ ~auth.fetched
             \/ auth.posted /\ auth.post.result = "raised"
             \/ auth.message = "wrapped" ) =>
               auth.outcome = "AuthenticationError"

\* a listing call that ended by an exception ended by its own error type,
\* and it did end so when one of the given things happened inside it
ListingConverts(fatal) ==
    ListingEnded =>
        /\ listing.pc = "raised" => listing.error = OwnError
        /\ listing.pc = "returned" => listing.error = "none"
        /\ (served.cause \in fatal \/ served.lookup = "failed") =>
               /\ listing.pc = "raised"
               /\ listing.error = OwnError
               /\ listing.videos = <<>>

\* C34 as stated: only AuthenticationError escapes authenticate, only
\* SearchError search_videos, only ProfileError get_profile_videos, and
\* every transport or parsing exception raised inside them (a failing
\* request, JSON that does not decode, JSON of another shape) ends the call
\* with that error, never with a normal return.
C34_EveryExceptionConverted ==
    /\ AuthenticateConverts
    /\ ListingConverts({"request_failed", "malformed", "bad_json"})

\* C34, amended: the same, except that JSON that does not decode is
\* handled inside search_videos and ends it with a normal return.
C34_UnhandledExceptionsConverted ==
    /\ AuthenticateConverts
    /\ ListingConverts({"request_failed", "malformed"})
    /\ (ListingEnded /\ served.cause = "bad_json") => listing.pc = "returned"

\* a second page whose request failed, after a first one that gave
\* records: the call has raised its own error and returns none of them
C34_Witness ==
    /\ ListingEnded
    /\ served.cause = "request_failed"
    /\ served.fetches = 2
    /\ Len(Available) >= 1
    /\ listing.pc = "raised"
    /\ listing.error = OwnError

\* ------------------------------------------------- the target path
\* the string holds a path separator
HasSeparator(s) == \E i \in DOMAIN s : s[i] \in {"/", "\\"}

\* sanitize_filename has returned a single path component that is neither
\* "." nor ".."
SanitizedIsOneComponent ==
    (input.kind = "filename" /\ applied = <<"sanitize_filename">>) =>
        /\ output.text \notin {<<".">>, <<".", ".">>}
        /\ ~HasSeparator(output.text)

\* the target path of a record is outputDir/<dir>/<file>.mp4: two parts
\* below the output directory, none of them ".."
PathTwoLevelsBelow ==
    (input.kind = "video_info" /\ applied = <<"filepath">>) =>
        /\ Len(PathParts(output.text)) = 2
        /\ \A i \in DOMAIN PathParts(output.text) :
               PathParts(output.text)[i] # <<".", ".">>

\* C35: for every uploader name, title and id the target path download_video
\* computes lies exactly two levels below the output directory, and
\* sanitize_filename never returns ".", ".." or a string with a path
\* separator: no record makes a download write outside the output
\* directory.
C35_TargetPathInsideOutputDir ==
    /\ SanitizedIsOneComponent
    /\ PathTwoLevelsBelow

=============================================================================
